---- MODULE Spec2Model ----
(***************************************************************************)
(* GliaGL: the leaky integrate-and-fire network (Neuron, Glia), the        *)
(* structural operations of the trainers (grow, snapshot capture/restore)  *)
(* and the rolling checkpoint ladder of the Hebbian trainer.               *)
(*                                                                         *)
(* Floats are modelled on a unit grid of integers.  The leak factor        *)
(* (Neuron::balancer) is kept in units of 1/LeakScale, so that leak 0,     *)
(* 1/2 and 1 are all representable.                                        *)
(*                                                                         *)
(* A neuron id is the sequence of its characters' tokens, <<"S", 0>> for   *)
(* "S0", so that the prefix test id[0] == 'S' of the code is Head(id).     *)
(***************************************************************************)
EXTENDS Integers, Sequences, FiniteSets, TLC

VARIABLES
    net,        \* the Glia under test: id -> Neuron fields
    net2,       \* a second Glia with the same neurons (the N' of a restore)
    prev,       \* history: net as it was when the last Glia::step began
    lastInj,    \* history: amount injected per neuron before the last step
    pendInj,    \* history: amount injected per neuron since the last step
    lastOp,     \* name of the last operation performed
    steps,      \* number of Glia::step calls so far (capped)
    probe,      \* paired runs: [at, id] of the extra injection, or NoProbe
    synced,     \* paired runs: restore found N' in N's dynamic state
    cfg,        \* TrainingConfig fields in use
    ckpt_l0, ckpt_l1, ckpt_l2,   \* Trainer's checkpoint ladder
    captures,   \* history: number of onEpochEndCapture calls
    reverts,    \* history: number of successful reverts
    lastRet,    \* history: return value of the last revertOneCheckpoint
    captured,   \* history: the Snapshot taken by the last capture
    stamps,     \* history: for each ladder level, the capture numbers of
                \* the snapshots it holds, in the same positions
    grown,      \* grow loop: edges added so far in this batch
    attempts,   \* grow loop: pairs sampled so far in this batch
    pc,         \* grow loop: "idle", or the trainer whose batch is growing
    rates,      \* FiringRateTracker::rates: id -> EMA of the spike indicator
    call,       \* history: arguments and result of the last call observed
    neuron_rate,       \* Trainer::neuron_rate: id -> EMA of the spike indicator
    reward_baseline,   \* Trainer::reward_baseline
    prune_counter,     \* Trainer::prune_counter: edge -> batches below epsilon
    epoch_acc_hist,    \* Trainer::epoch_acc_hist
    epoch_margin_hist, \* Trainer::epoch_margin_hist
    batches,           \* history: number of trainBatch calls so far (capped)
    run,               \* the trainer's position in trainBatch / trainEpoch
                       \* and the locals of the call in progress
    streak,            \* history: edge -> the batches in a row, since the
                       \* edge was created, that ended with it below epsilon
    evo_cfg,           \* EvolutionEngine::evo_cfg
    pop,               \* EvolutionEngine::run: the population, in order
    lineage,           \* EvolutionEngine::lineage
    next_node_id,      \* EvolutionEngine::next_node_id
    gen,               \* EvolutionEngine::run: the generation loop's index
    evo_pc             \* EvolutionEngine::run: the part of run() to do next

vars == <<net, net2, prev, lastInj, pendInj, lastOp, steps, probe,
          synced, cfg, ckpt_l0, ckpt_l1, ckpt_l2, captures, reverts, lastRet,
          captured, stamps, grown, attempts, pc, rates, call, neuron_rate,
          reward_baseline, prune_counter, epoch_acc_hist, epoch_margin_hist,
          batches, run, streak, evo_cfg, pop, lineage, next_node_id, gen,
          evo_pc>>

simVars   == <<net, prev, lastInj, pendInj, lastOp, steps>>
pairVars  == <<net2, probe, synced>>
ckptVars  == <<cfg, ckpt_l0, ckpt_l1, ckpt_l2, captures, reverts, lastRet,
               captured, stamps>>
edgeVars  == <<grown, attempts, pc>>
trainVars == <<neuron_rate, reward_baseline, prune_counter, epoch_acc_hist,
               epoch_margin_hist, batches, run, streak>>
evoVars   == <<evo_cfg, pop, lineage, next_node_id, gen, evo_pc>>
auxVars   == <<rates, call, trainVars, evoVars>>

----------------------------------------------------------------------------
(* Bounds *)

LeakScale     == 2    \* balancer is counted in units of 1/LeakScale
MaxAmt        == 2    \* largest amount injected in one call
MaxSteps      == 4    \* steps taken by a paired run
MaxGrow       == 1    \* largest cfg.grow_edges

\* `attempts < cfg.grow_edges * 20` of the grow loop
GrowTrialFactor == 20

----------------------------------------------------------------------------
(* Neuron identifiers *)

S0 == <<"S", 0>>
H0 == <<"H", 0>>
O0 == <<"O", 0>>

\* Glia::sensory_neurons and Glia::neurons, in insertion order
sensory_neurons == <<S0>>
neurons         == <<H0, O0>>

\* Glia::forEachNeuron / Glia::step visit sensory neurons first, then the rest
Order == sensory_neurons \o neurons

Range(s) == {s[i] : i \in 1..Len(s)}
Ids == Range(Order)

\* Glia::sensory_mapping holds the ids of sensory_neurons
sensory_mapping == Range(sensory_neurons)
neuron_mapping  == Range(neurons)

RECURSIVE SumOver(_, _)
SumOver(S, f) ==
    IF S = {} THEN 0
    ELSE LET x == CHOOSE y \in S : TRUE IN f[x] + SumOver(S \ {x}, f)

----------------------------------------------------------------------------
(* Neuron *)

\* Neuron::Neuron: value starts at resting, the buffers and refractory at 0
NewNeuron(resting, balancer, refractory_period, threshold) ==
    [value |-> resting, resting |-> resting, balancer |-> balancer,
     delta |-> 0, on_deck |-> 0, refractory |-> 0,
     refractory_period |-> refractory_period, threshold |-> threshold,
     using_tick |-> TRUE, connections |-> [t \in {} |-> 0],
     just_fired |-> FALSE]

\* leak_factor * value, with the leak in units of 1/LeakScale
LeakMul(l, v) == (l * v) \div LeakScale

\* Neuron::setTransmitter: connections[id].first = new_transmitter
setTransmitter(g, from, to, w) ==
    [g EXCEPT ![from].connections = (to :> w) @@ @]

setThreshold(g, n, t) == [g EXCEPT ![n].threshold = t]
setLeak(g, n, l)      == [g EXCEPT ![n].balancer = l]

\* Neuron::addConnection: connections[neuron.id] = (transmitter, &neuron)
NeuronAddConnection(g, from, w, to) ==
    [g EXCEPT ![from].connections = (to :> w) @@ @]

\* Neuron::removeConnection: connections.erase(to)
removeConnection(g, from, to) ==
    [g EXCEPT ![from].connections =
        [t \in (DOMAIN @) \ {to} |-> @[t]]]

\* Neuron::fire (declared before receive: receive's non-tick branch fires)
RECURSIVE fire(_, _)

\* Neuron::receive
receive(g, n, transmission) ==
    IF g[n].using_tick
    THEN [g EXCEPT ![n].on_deck = @ + transmission]
    ELSE LET g1 == [g EXCEPT ![n].value = @ + transmission]
         IN IF g1[n].value <= g1[n].threshold
            THEN IF g1[n].refractory > 0
                 THEN [g1 EXCEPT ![n].refractory = @ - 1]
                 ELSE g1
            ELSE IF g1[n].refractory = 0
                 THEN fire(g1, n)
                 ELSE [g1 EXCEPT ![n].refractory = @ - 1]

\* the loop of Neuron::fire over the connections still to be served
RECURSIVE SendAll(_, _, _)
SendAll(g, n, todo) ==
    IF todo = {} THEN g
    ELSE LET t == CHOOSE x \in todo : TRUE
         IN SendAll(receive(g, t, g[n].connections[t]), n, todo \ {t})

\* fire as it was before the assignment was commented out: the countdown is
\* armed with the refractory period
fireArming(g, n) ==
    LET g1 == [g EXCEPT ![n].just_fired = TRUE, ![n].value = g[n].resting]
        g2 == SendAll(g1, n, DOMAIN g1[n].connections)
    IN [g2 EXCEPT ![n].refractory = g2[n].refractory_period]

\* Neuron::fire: full reset to resting, then one transmission per connection;
\* the refractory countdown is not armed (the assignment is commented out)
fire(g, n) ==
    LET g1 == [g EXCEPT ![n].just_fired = TRUE, ![n].value = g[n].resting]
    IN SendAll(g1, n, DOMAIN g1[n].connections)

\* tick with the clamp of the membrane potential left out
tickNoClamp(g, n) ==
    LET incoming == g[n].delta
        g1 == [g EXCEPT ![n].just_fired = FALSE,
                        ![n].delta = g[n].on_deck,
                        ![n].on_deck = 0]
    IN IF g1[n].refractory > 0
       THEN [g1 EXCEPT ![n].refractory = @ - 1]
       ELSE LET raw == LeakMul(g1[n].balancer, g1[n].value) + incoming
                g2 == [g1 EXCEPT ![n].value = raw]
            IN IF g2[n].value > g2[n].threshold THEN fire(g2, n) ELSE g2

\* tick firing already at the threshold instead of strictly above it
tickAtThreshold(g, n) ==
    LET incoming == g[n].delta
        g1 == [g EXCEPT ![n].just_fired = FALSE,
                        ![n].delta = g[n].on_deck,
                        ![n].on_deck = 0]
    IN IF g1[n].refractory > 0
       THEN [g1 EXCEPT ![n].refractory = @ - 1]
       ELSE LET raw == LeakMul(g1[n].balancer, g1[n].value) + incoming
                g2 == [g1 EXCEPT ![n].value = IF raw < 0 THEN 0 ELSE raw]
            IN IF g2[n].value >= g2[n].threshold THEN fire(g2, n) ELSE g2

\* tick integrating what was staged during this very step as well
tickNoDelay(g, n) ==
    LET incoming == g[n].delta + g[n].on_deck
        g1 == [g EXCEPT ![n].just_fired = FALSE,
                        ![n].delta = 0,
                        ![n].on_deck = 0]
    IN IF g1[n].refractory > 0
       THEN [g1 EXCEPT ![n].refractory = @ - 1]
       ELSE LET raw == LeakMul(g1[n].balancer, g1[n].value) + incoming
                g2 == [g1 EXCEPT ![n].value = IF raw < 0 THEN 0 ELSE raw]
            IN IF g2[n].value > g2[n].threshold THEN fire(g2, n) ELSE g2

\* Neuron::tick
tick(g, n) ==
    LET incoming == g[n].delta
        g1 == [g EXCEPT ![n].just_fired = FALSE,
                        ![n].delta = g[n].on_deck,
                        ![n].on_deck = 0]
    IN IF g1[n].refractory > 0
       THEN [g1 EXCEPT ![n].refractory = @ - 1]
       ELSE LET raw == LeakMul(g1[n].balancer, g1[n].value) + incoming
                g2 == [g1 EXCEPT ![n].value = IF raw < 0 THEN 0 ELSE raw]
            IN IF g2[n].value > g2[n].threshold THEN fire(g2, n) ELSE g2

----------------------------------------------------------------------------
(* Glia *)

RECURSIVE TickAll(_, _)
TickAll(g, order) ==
    IF order = <<>> THEN g
    ELSE TickAll(tick(g, Head(order)), Tail(order))

\* Glia::step: tick every sensory neuron, then every other neuron
step(g) == TickAll(TickAll(g, sensory_neurons), neurons)

\* Glia::injectSensory: only ids of sensory_mapping receive
injectSensory(g, id, amt) ==
    IF id \in sensory_mapping THEN receive(g, id, amt) ELSE g

\* Glia::getNeuronById: found in sensory_mapping or neuron_mapping
getNeuronById(id) == id \in sensory_mapping \cup neuron_mapping

\* Glia::addConnection: each end is looked up in the map its prefix selects
GliaLookup(id) ==
    IF id # <<>> /\ Head(id) = "S" THEN id \in sensory_mapping
    ELSE id \in neuron_mapping

GliaAddConnection(g, from_id, to_id, weight) ==
    IF ~GliaLookup(from_id) \/ ~GliaLookup(to_id) THEN g
    ELSE NeuronAddConnection(g, from_id, weight, to_id)

----------------------------------------------------------------------------
(* TopologyPolicy and TrainingConfig *)

\* the defaults of struct TopologyPolicy
DefaultPolicy ==
    [allow_inbound_to_sensory |-> FALSE,
     allow_feedback_to_outputs |-> FALSE,
     allow_self_loops |-> FALSE]

\* TopologyPolicy::edgeAllowed
edgeAllowed(policy, from_id, to_id) ==
    IF ~policy.allow_inbound_to_sensory /\ to_id # <<>> /\ Head(to_id) = "S"
    THEN FALSE
    ELSE IF ~policy.allow_feedback_to_outputs /\ to_id # <<>> /\ Head(to_id) = "O"
    THEN FALSE
    ELSE IF ~policy.allow_self_loops /\ from_id = to_id
    THEN FALSE
    ELSE TRUE

\* the defaults of struct TrainingConfig, for the fields in use; init_weight
\* (0.01f) is one unit of the weight grid
DefaultConfig ==
    [ckpt_l0 |-> 4, ckpt_l1 |-> 2, ckpt_l2 |-> 1,
     grow_edges |-> 0, init_weight |-> 1, topology |-> DefaultPolicy]

----------------------------------------------------------------------------
(* Networks the simulation starts from *)

\* connections of a network given as a set of <<from, to, weight>> triples
ConnOf(edges, from) ==
    [t \in {e[2] : e \in {x \in edges : x[1] = from}} |->
        (CHOOSE e \in edges : e[1] = from /\ e[2] = t)[3]]

\* a network whose neurons are built by Neuron::Neuron from per-neuron
\* parameters (as the NEURON lines of a network file do) and whose edges
\* come from CONNECTION lines
BuildNet(thr, leak, rest, edges) ==
    [n \in Ids |->
        [NewNeuron(rest[n], leak[n], 4, thr[n])
            EXCEPT !.connections = ConnOf(edges, n)]]

Chain    == {<<S0, H0, 2>>, <<H0, O0, 2>>}
Topologies ==
    { Chain,
      Chain \cup {<<O0, H0, 1>>},                       \* feedback edge
      Chain \cup {<<H0, H0, 1>>},                       \* self-loop
      {<<S0, H0, 2>>, <<S0, O0, 2>>, <<H0, O0, -3>>} }  \* inhibition

Thresholds == {0, 1}
Leaks      == 0..LeakScale
Restings   == {-1, 0, 1}

ZeroInj == [n \in Ids |-> 0]
NoProbe == [at |-> -1, id |-> <<>>]
NoSnapshot == [neurons |-> <<>>, edges |-> {}]
NoStamps == [l0 |-> <<>>, l1 |-> <<>>, l2 |-> <<>>]
DefaultNet == BuildNet([n \in Ids |-> 1], [n \in Ids |-> LeakScale],
                       [n \in Ids |-> 0], Chain)

PairIdle == net2 = DefaultNet /\ probe = NoProbe /\ synced = FALSE
CkptIdle ==
    /\ cfg = DefaultConfig
    /\ ckpt_l0 = <<>> /\ ckpt_l1 = <<>> /\ ckpt_l2 = <<>>
    /\ captures = 0 /\ reverts = 0 /\ lastRet = FALSE
    /\ captured = NoSnapshot /\ stamps = NoStamps
EdgeIdle == grown = 0 /\ attempts = 0 /\ pc = "idle"
NoCall == [op |-> "none"]
\* no training call in progress
Idle == [at |-> "idle"]
\* a Trainer as constructed: empty maps and histories, reward_baseline = 0
TrainIdle ==
    /\ neuron_rate = <<>> /\ reward_baseline = 0 /\ prune_counter = <<>>
    /\ epoch_acc_hist = <<>> /\ epoch_margin_hist = <<>> /\ batches = 0
    /\ run = Idle /\ streak = <<>>
\* an EvolutionEngine as constructed, with the default population,
\* generations, elite and parents_pool
EvoIdle ==
    /\ evo_cfg = [population |-> 8, generations |-> 10, elite |-> 2,
                  parents_pool |-> 4]
    /\ pop = <<>> /\ lineage = <<>> /\ next_node_id = 0 /\ gen = 0
    /\ evo_pc = "start"
AuxIdle == rates = <<>> /\ call = NoCall /\ TrainIdle /\ EvoIdle
SimIdle ==
    /\ prev = net /\ lastInj = ZeroInj /\ pendInj = ZeroInj
    /\ lastOp = "init" /\ steps = 0

----------------------------------------------------------------------------
(* Simulation: sensory injection and network steps on one network *)

SimInit ==
    /\ \E thr \in [Ids -> Thresholds], l \in Leaks, r \in Restings,
          edges \in Topologies :
          net = BuildNet(thr, [n \in Ids |-> l], [n \in Ids |-> r], edges)
    /\ SimIdle /\ AuxIdle /\ PairIdle /\ CkptIdle /\ EdgeIdle

\* a caller's Glia::injectSensory(id, amt); the events of one tick come from
\* a map keyed by id (InputSequence::getCurrentInputs), one per id
Inject(id, amt) ==
    /\ id \in sensory_mapping => pendInj[id] = 0
    /\ net' = injectSensory(net, id, amt)
    /\ pendInj' = IF id \in sensory_mapping
                  THEN [pendInj EXCEPT ![id] = @ + amt] ELSE pendInj
    /\ lastOp' = "inject"
    /\ UNCHANGED <<prev, lastInj, steps>>
    /\ UNCHANGED <<pairVars, ckptVars, edgeVars, auxVars>>

\* a caller's Glia::step()
Step ==
    /\ net' = step(net)
    /\ prev' = net
    /\ lastInj' = pendInj
    /\ pendInj' = ZeroInj
    /\ lastOp' = "step"
    /\ UNCHANGED <<steps, pairVars, ckptVars, edgeVars, auxVars>>

SimNext ==
    \/ \E id \in Ids, amt \in 1..MaxAmt : Inject(id, amt)
    \/ Step

SpecSim == SimInit /\ [][SimNext]_vars

----------------------------------------------------------------------------
(* Properties of the simulation *)

\* the neurons with an edge into j that fired in the step that led to g
FiredInto(g, j) ==
    {i \in Ids : g[i].just_fired /\ j \in DOMAIN g[i].connections}

\* the sum of the weights of the edges into j from neurons that fired
SpikesInto(g, j) ==
    SumOver(FiredInto(g, j), [i \in Ids |-> g[i].connections[j]])

\* what tick computes before comparing with the threshold
Integrated(g, n) ==
    LET raw == LeakMul(g[n].balancer, g[n].value) + g[n].delta
    IN IF raw < 0 THEN 0 ELSE raw

\* C1: after a step t, what each neuron j will integrate in step t+1 (its
\* delta register) is exactly the injection made for step t plus the weight
\* of every edge i -> j whose source fired during step t, and nothing is
\* left staged for a later step, whatever the positions of i and j in the
\* update order.
C1_OneTickDelay ==
    lastOp = "step" =>
        \A j \in Ids :
            /\ net[j].delta = lastInj[j] + SpikesInto(net, j)
            /\ net[j].on_deck = 0

\* C3 as stated: after any tick every membrane potential is >= 0.
C3_NonNegative ==
    lastOp = "step" => \A n \in Ids : net[n].value >= 0

\* C3 amended: after any tick a neuron's membrane potential is >= 0 unless
\* the neuron fired in that tick, and then it equals its resting potential;
\* so V >= 0 for every neuron whose resting potential is >= 0.
C3_NonNegativeOrReset ==
    lastOp = "step" =>
        \A n \in Ids :
            /\ net[n].value >= 0 \/ (net[n].just_fired /\ net[n].value = net[n].resting)
            /\ net[n].resting >= 0 => net[n].value >= 0

\* a tick clamped a negative sum of an unfired neuron to 0
C3_Witness ==
    /\ lastOp = "step"
    /\ \E n \in Ids :
        /\ LeakMul(prev[n].balancer, prev[n].value) + prev[n].delta < 0
        /\ ~net[n].just_fired
        /\ net[n].value = 0

\* C4: in a tick in which it is not refractory a neuron fires iff
\* max(0, L*V + incoming) > threshold; after firing V = R and just_fired;
\* a neuron that did not fire has just_fired = FALSE and keeps the integrated
\* value; every edge of a firing neuron adds its weight exactly once to what
\* is staged for its target; and the tick after a fire integrates from V = R.
C4_ThresholdReset ==
    lastOp = "step" =>
        \A n \in Ids :
            /\ prev[n].refractory = 0 =>
                /\ net[n].just_fired <=> Integrated(prev, n) > prev[n].threshold
                /\ net[n].just_fired => net[n].value = net[n].resting
                /\ ~net[n].just_fired => net[n].value = Integrated(prev, n)
            /\ prev[n].refractory > 0 => ~net[n].just_fired
            /\ net[n].delta + net[n].on_deck = prev[n].on_deck + SpikesInto(net, n)
            /\ prev[n].just_fired => prev[n].value = prev[n].resting

\* a neuron with outgoing edges fired in two consecutive ticks
C4_Witness ==
    /\ lastOp = "step"
    /\ \E n \in Ids :
        /\ net[n].just_fired /\ prev[n].just_fired
        /\ DOMAIN net[n].connections # {}
        /\ Integrated(prev, n) > net[n].threshold


----------------------------------------------------------------------------
(* Paired runs: two copies of one network fed the same inputs, except for *)
(* one extra sensory injection into the first                             *)

DelayInit ==
    /\ \E thr \in [Ids -> Thresholds], l \in Leaks, r \in {0, 1},
          edges \in Topologies :
          net = BuildNet(thr, [n \in Ids |-> l], [n \in Ids |-> r], edges)
    /\ net2 = net
    /\ probe = NoProbe /\ synced = FALSE
    /\ SimIdle /\ AuxIdle /\ CkptIdle /\ EdgeIdle

\* the same Glia::injectSensory(id, amt) on both copies
DInject(id, amt) ==
    /\ pendInj[id] = 0
    /\ net' = injectSensory(net, id, amt)
    /\ net2' = injectSensory(net2, id, amt)
    /\ pendInj' = [pendInj EXCEPT ![id] = amt]
    /\ UNCHANGED <<prev, lastInj, lastOp, steps, probe, synced>>
    /\ UNCHANGED <<ckptVars, edgeVars, auxVars>>

\* the extra Glia::injectSensory(id, amt), on the first copy only, made for
\* the tick that the next step performs
DProbe(id, amt) ==
    /\ probe = NoProbe
    /\ steps < MaxSteps
    /\ net' = injectSensory(net, id, amt)
    /\ probe' = [at |-> steps + 1, id |-> id]
    /\ UNCHANGED <<net2, synced, prev, lastInj, pendInj, lastOp, steps>>
    /\ UNCHANGED <<ckptVars, edgeVars, auxVars>>

\* Glia::step on both copies
DStep ==
    /\ steps < MaxSteps
    /\ net' = step(net)
    /\ net2' = step(net2)
    /\ steps' = steps + 1
    /\ pendInj' = ZeroInj
    /\ UNCHANGED <<prev, lastInj, lastOp, probe, synced>>
    /\ UNCHANGED <<ckptVars, edgeVars, auxVars>>

DelayNext ==
    \/ \E id \in sensory_mapping, amt \in 1..MaxAmt : DInject(id, amt)
    \/ \E id \in sensory_mapping, amt \in 1..MaxAmt : DProbe(id, amt)
    \/ DStep

SpecDelay == DelayInit /\ [][DelayNext]_vars

\* the neurons reached from the set `from` along at most k edges of g
RECURSIVE Within(_, _, _)
Within(g, from, k) ==
    IF k = 0 THEN from
    ELSE LET near == Within(g, from, k - 1)
         IN near \cup UNION {DOMAIN g[i].connections : i \in near}

\* the number of edges on a shortest path from a to b, -1 if there is none
Dist(g, a, b) ==
    IF b \notin Within(g, {a}, Cardinality(Ids)) THEN -1
    ELSE CHOOSE k \in 0..Cardinality(Ids) :
            /\ b \in Within(g, {a}, k)
            /\ \A m \in 0..(k - 1) : b \notin Within(g, {a}, m)

\* C2: a sensory injection made for tick t leaves the membrane potential and
\* the firing of every neuron k edges away from the injected neuron as they
\* would have been without it until tick t + k; a neuron it cannot reach is
\* never affected.
C2_NoEarlyInfluence ==
    probe # NoProbe =>
        \A j \in Ids :
            LET k == Dist(net, probe.id, j)
            IN (k = -1 \/ steps < probe.at + k) =>
                /\ net[j].value = net2[j].value
                /\ net[j].just_fired = net2[j].just_fired

\* the injection changed the firing of a neuron two edges away
C2_Witness ==
    /\ probe # NoProbe
    /\ \E j \in Ids :
        /\ Dist(net, probe.id, j) = 2
        /\ net[j].just_fired # net2[j].just_fired

----------------------------------------------------------------------------
(* Edge operations: addConnection, prune's removeConnection, and the grow *)
(* loop that ends a batch of either trainer                               *)

\* Trainer::collectAllIDs: every id, in forEachNeuron order
collectAllIDs == Order

\* the set of <<from, to>> pairs that are edges of g
EdgeSet(g) == {<<f, t>> \in Ids \X Ids : t \in DOMAIN g[f].connections}

\* grow accepting a duplicate: the lookup in `conns` is left out
GrowAcceptsDuplicates(g, c, from_id, to_id) ==
    /\ edgeAllowed(c.topology, from_id, to_id)
    /\ from_id # to_id
    /\ getNeuronById(from_id) /\ getNeuronById(to_id)

\* grow not consulting the topology policy
GrowAcceptsAnyTarget(g, c, from_id, to_id) ==
    /\ from_id # to_id
    /\ getNeuronById(from_id) /\ getNeuronById(to_id)
    /\ to_id \notin DOMAIN g[from_id].connections

\* the tests one sampled pair passes before the grow loop adds it
GrowAccepts(g, c, from_id, to_id) ==
    /\ edgeAllowed(c.topology, from_id, to_id)
    /\ from_id # to_id
    /\ getNeuronById(from_id) /\ getNeuronById(to_id)
    /\ to_id \notin DOMAIN g[from_id].connections

\* one iteration of the grow loop on a sampled pair and a sampled sign
GrowEdge(g, c, from_id, to_id, sign) ==
    IF GrowAccepts(g, c, from_id, to_id)
    THEN NeuronAddConnection(g, from_id, c.init_weight * sign, to_id)
    ELSE g

NoSuch == <<"H", 9>>          \* an id no neuron has
AddPairs == {<<S0, H0>>, <<S0, NoSuch>>}
AddWeights == {3}

\* the default policy and the three policies that lift one restriction
Policies ==
    { DefaultPolicy,
      [DefaultPolicy EXCEPT !.allow_inbound_to_sensory = TRUE],
      [DefaultPolicy EXCEPT !.allow_feedback_to_outputs = TRUE],
      [DefaultPolicy EXCEPT !.allow_self_loops = TRUE] }

EdgeInit ==
    /\ \E edges \in {Chain}, g \in 1..MaxGrow, pol \in Policies :
        /\ net = BuildNet([n \in Ids |-> 1], [n \in Ids |-> LeakScale],
                          [n \in Ids |-> 0], edges)
        /\ cfg = [DefaultConfig EXCEPT !.grow_edges = g, !.topology = pol]
    /\ SimIdle /\ AuxIdle /\ PairIdle /\ EdgeIdle
    /\ ckpt_l0 = <<>> /\ ckpt_l1 = <<>> /\ ckpt_l2 = <<>>
    /\ captures = 0 /\ reverts = 0 /\ lastRet = FALSE
    /\ captured = NoSnapshot /\ stamps = NoStamps

EdgeFrame ==
    /\ UNCHANGED <<prev, lastInj, pendInj, steps, pairVars, ckptVars, auxVars>>

\* a caller's from.addConnection(w, to) on two neurons of the network
EAddNeuron(from, to, w) ==
    /\ pc = "idle"
    /\ from \in Ids /\ to \in Ids
    /\ net' = NeuronAddConnection(net, from, w, to)
    /\ lastOp' = IF to \in DOMAIN net[from].connections
                 THEN "addConnection:dup" ELSE "other"
    /\ UNCHANGED edgeVars /\ EdgeFrame

\* Glia::addConnection(from_id, to_id, weight), as for a CONNECTION line
EAddGlia(from_id, to_id, w) ==
    /\ pc = "idle"
    /\ net' = GliaAddConnection(net, from_id, to_id, w)
    /\ lastOp' = IF from_id \in Ids /\ to_id \in DOMAIN net[from_id].connections
                 THEN "Glia::addConnection:dup" ELSE "other"
    /\ UNCHANGED edgeVars /\ EdgeFrame

\* the prune step's from->removeConnection(to) on an existing edge
ERemove(from, to) ==
    /\ pc = "idle"
    /\ to \in DOMAIN net[from].connections
    /\ net' = removeConnection(net, from, to)
    /\ lastOp' = "other"
    /\ UNCHANGED edgeVars /\ EdgeFrame

\* trainBatch / postBatchPlasticity reaches `if (cfg.grow_edges > 0)`
GrowBegin(trainer) ==
    /\ pc = "idle"
    /\ cfg.grow_edges > 0
    /\ pc' = trainer
    /\ grown' = 0 /\ attempts' = 0
    /\ lastOp' = "other"
    /\ UNCHANGED net /\ EdgeFrame

\* one iteration of `while (grown < grow_edges && attempts < grow_edges * 20)`
GrowAttempt(from_id, to_id, sign) ==
    /\ pc # "idle"
    /\ grown < cfg.grow_edges /\ attempts < cfg.grow_edges * GrowTrialFactor
    /\ attempts' = attempts + 1
    /\ net' = GrowEdge(net, cfg, from_id, to_id, sign)
    /\ grown' = IF GrowAccepts(net, cfg, from_id, to_id) THEN grown + 1 ELSE grown
    /\ lastOp' = IF from_id \in Ids /\ to_id \in DOMAIN net[from_id].connections
                 THEN "grow:dup" ELSE "other"
    /\ UNCHANGED pc /\ EdgeFrame

\* the loop condition fails: the batch goes on after the grow step
GrowEnd ==
    /\ pc # "idle"
    /\ ~(grown < cfg.grow_edges /\ attempts < cfg.grow_edges * GrowTrialFactor)
    /\ pc' = "idle"
    /\ lastOp' = "other"
    /\ UNCHANGED <<net, grown, attempts>> /\ EdgeFrame

EdgeNext ==
    \/ \E p \in AddPairs, w \in AddWeights : EAddNeuron(p[1], p[2], w)
    \/ \E p \in AddPairs, w \in AddWeights : EAddGlia(p[1], p[2], w)
    \/ \E p \in Ids \X Ids : ERemove(p[1], p[2])
    \/ \E trainer \in {"Trainer", "RateGDTrainer"} : GrowBegin(trainer)
    \/ \E i, j \in 1..Len(collectAllIDs), sign \in {-1, 1} :
          GrowAttempt(collectAllIDs[i], collectAllIDs[j], sign)
    \/ GrowEnd

SpecEdges == EdgeInit /\ [][EdgeNext]_vars

----------------------------------------------------------------------------
(* Properties of the edge operations *)

\* the step adds the pair p, already an edge, by one of the three routes
AddsByCall(p) ==
    \E w \in AddWeights : EAddNeuron(p[1], p[2], w) \/ EAddGlia(p[1], p[2], w)
AddsByGrow(p) ==
    \E sign \in {-1, 1} : GrowAttempt(p[1], p[2], sign)

\* C5 as stated: adding an edge (from, to) that already exists, through
\* Neuron::addConnection, Glia::addConnection or the grow step, leaves the
\* edge set and the existing edge's weight unchanged.
C5_DuplicateRejected ==
    [][\A p \in EdgeSet(net) :
        (AddsByCall(p) \/ AddsByGrow(p)) =>
            /\ EdgeSet(net') = EdgeSet(net)
            /\ net'[p[1]].connections[p[2]] = net[p[1]].connections[p[2]]]_vars

\* C5 amended: adding an edge that already exists never changes the edge
\* set; the grow step rejects it and leaves the whole network unchanged (a
\* grow iteration that changes the network did not sample an existing
\* edge), while Neuron::addConnection and Glia::addConnection overwrite the
\* existing edge's weight with the new one and leave every other edge as it
\* was.
C5_DuplicateKeepsEdgeSet ==
    [][\A p \in EdgeSet(net) :
        /\ (pc # "idle" /\ net' # net) => ~AddsByGrow(p)
        /\ \A w \in AddWeights :
            (pc = "idle" /\ (EAddNeuron(p[1], p[2], w) \/ EAddGlia(p[1], p[2], w))) =>
                /\ EdgeSet(net') = EdgeSet(net)
                /\ net'[p[1]].connections[p[2]] = w
                /\ \A q \in EdgeSet(net) \ {p} :
                    net'[q[1]].connections[q[2]] = net[q[1]].connections[q[2]]]_vars

\* Glia::addConnection was called for an edge that existed with another weight
C5_Witness ==
    /\ lastOp = "Glia::addConnection:dup"
    /\ \E p \in AddPairs : p[1] \in Ids /\ p[2] \in DOMAIN net[p[1]].connections

\* C10: with the default topology policy, an edge that appears during the
\* grow step of either trainer never has a target id beginning with 'S' or
\* 'O'.
C10_GrowRespectsDefaultPolicy ==
    [][(pc # "idle" /\ cfg.topology = DefaultPolicy) =>
        \A e \in EdgeSet(net') \ EdgeSet(net) :
            Head(e[2]) \notin {"S", "O"}]_vars

\* under the default policy the grow step has created an edge
C10_Witness ==
    /\ pc # "idle"
    /\ cfg.topology = DefaultPolicy
    /\ grown > 0


\* C20: a grow attempt on a sampled pair (from, to) adds the edge if and
\* only if the topology policy allows the pair and the edge does not exist
\* yet; the policy forbids a target beginning with 'S' unless inbound to
\* sensory is allowed, a target beginning with 'O' unless feedback to outputs
\* is allowed, and from = to unless self-loops are allowed.
C20_GrowIffPolicyAllows ==
    [][\A from_id, to_id \in Ids :
        (\E sign \in {-1, 1} : GrowAttempt(from_id, to_id, sign)) =>
            LET allowed ==
                    /\ Head(to_id) = "S" => cfg.topology.allow_inbound_to_sensory
                    /\ Head(to_id) = "O" => cfg.topology.allow_feedback_to_outputs
                    /\ from_id = to_id => cfg.topology.allow_self_loops
            IN (<<from_id, to_id>> \in EdgeSet(net') \ EdgeSet(net)) <=>
                    (allowed /\ <<from_id, to_id>> \notin EdgeSet(net))]_vars

----------------------------------------------------------------------------
(* Snapshots and the checkpoint ladder of the trainer *)

\* Trainer::captureSnapshot: (id, threshold, leak) of every neuron in
\* forEachNeuron order, and (from, to, w) of every edge
captureSnapshot(g) ==
    [neurons |-> [i \in 1..Len(Order) |->
                    [id |-> Order[i], thr |-> g[Order[i]].threshold,
                     leak |-> g[Order[i]].balancer]],
     edges |-> {[from |-> e[1], to |-> e[2], w |-> g[e[1]].connections[e[2]]] :
                    e \in EdgeSet(g)}]

\* first loop of restoreSnapshot: every neuron drops the outgoing edges that
\* the snapshot does not list
RemoveUnlisted(g, s) ==
    [n \in Ids |->
        [g[n] EXCEPT !.connections =
            [t \in {u \in DOMAIN g[n].connections :
                        \E e \in s.edges : e.from = n /\ e.to = u}
                |-> g[n].connections[t]]]]

\* second loop of restoreSnapshot: an edge of the snapshot is added when it
\* is missing and has its weight set when it is there; it is skipped when
\* one of its ends is not a neuron of the network
RECURSIVE RestoreEdges(_, _)
RestoreEdges(g, todo) ==
    IF todo = {} THEN g
    ELSE LET e == CHOOSE x \in todo : TRUE
             g1 == IF ~(getNeuronById(e.from) /\ getNeuronById(e.to)) THEN g
                   ELSE IF e.to \notin DOMAIN g[e.from].connections
                        THEN NeuronAddConnection(g, e.from, e.w, e.to)
                        ELSE setTransmitter(g, e.from, e.to, e.w)
         IN RestoreEdges(g1, todo \ {e})

\* third loop of restoreSnapshot: threshold and leak of every listed neuron
RECURSIVE RestoreParams(_, _)
RestoreParams(g, recs) ==
    IF recs = <<>> THEN g
    ELSE LET r == Head(recs)
             g1 == IF ~getNeuronById(r.id) THEN g
                   ELSE setLeak(setThreshold(g, r.id, r.thr), r.id, r.leak)
         IN RestoreParams(g1, Tail(recs))

\* a restore that leaves the edges the snapshot does not list in place
restoreKeepingExtraEdges(g, s) ==
    RestoreParams(RestoreEdges(g, s.edges), s.neurons)

\* a restore that does not write the leak back
restoreWithoutLeak(g, s) ==
    LET g2 == RestoreEdges(RemoveUnlisted(g, s), s.edges)
    IN [n \in Ids |-> [g2[n] EXCEPT !.threshold =
            (CHOOSE r \in Range(s.neurons) : r.id = n).thr]]

\* Trainer::restoreSnapshot
restoreSnapshot(g, s) ==
    RestoreParams(RestoreEdges(RemoveUnlisted(g, s), s.edges), s.neurons)

\* a capture that never drops the oldest snapshot of the last level
captureWithoutDrop(c, l0, l1, l2, s) ==
    LET a0 == Append(l0, s)
        over0 == Len(a0) > c.ckpt_l0
        a1 == IF over0 THEN Append(l1, Head(a0)) ELSE l1
        over1 == Len(a1) > c.ckpt_l1
    IN [l0 |-> IF over0 THEN Tail(a0) ELSE a0,
        l1 |-> IF over1 THEN Tail(a1) ELSE a1,
        l2 |-> IF over1 THEN Append(l2, Head(a1)) ELSE l2]

\* a capture that passes the newest snapshot of an overfull level on
capturePromotingNewest(c, l0, l1, l2, s) ==
    LET a0 == Append(l0, s)
        over0 == Len(a0) > c.ckpt_l0
        a1 == IF over0 THEN Append(l1, a0[Len(a0)]) ELSE l1
        over1 == Len(a1) > c.ckpt_l1
        a2 == IF over1 THEN Append(l2, a1[Len(a1)]) ELSE l2
    IN [l0 |-> IF over0 THEN SubSeq(a0, 1, Len(a0) - 1) ELSE a0,
        l1 |-> IF over1 THEN SubSeq(a1, 1, Len(a1) - 1) ELSE a1,
        l2 |-> IF Len(a2) > c.ckpt_l2 THEN Tail(a2) ELSE a2]

\* Trainer::onEpochEndCapture on the ladder (l0, l1, l2) with snapshot s: push
\* to l0, and pass the oldest of an overfull level on to the next level
onEpochEndCapture(c, l0, l1, l2, s) ==
    LET a0 == Append(l0, s)
        over0 == Len(a0) > c.ckpt_l0
        a1 == IF over0 THEN Append(l1, Head(a0)) ELSE l1
        over1 == Len(a1) > c.ckpt_l1
        a2 == IF over1 THEN Append(l2, Head(a1)) ELSE l2
    IN [l0 |-> IF over0 THEN Tail(a0) ELSE a0,
        l1 |-> IF over1 THEN Tail(a1) ELSE a1,
        l2 |-> IF Len(a2) > c.ckpt_l2 THEN Tail(a2) ELSE a2]

\* Trainer::revertOneFrom: pop the newest snapshot of a level and restore it
revertOneFrom(g, level) ==
    IF level = <<>> THEN [ret |-> FALSE, net |-> g, level |-> level]
    ELSE [ret |-> TRUE,
          net |-> restoreSnapshot(g, level[Len(level)]),
          level |-> SubSeq(level, 1, Len(level) - 1)]

\* a revert that only looks at the first level
revertFirstLevelOnly(g, l0, l1, l2) ==
    LET r0 == revertOneFrom(g, l0)
    IN [ret |-> r0.ret, net |-> r0.net, l0 |-> r0.level, l1 |-> l1, l2 |-> l2]

\* Trainer::revertOneCheckpoint: the first level that is not empty reverts
revertOneCheckpoint(g, l0, l1, l2) ==
    LET r0 == revertOneFrom(g, l0)
        r1 == revertOneFrom(g, l1)
        r2 == revertOneFrom(g, l2)
    IN IF r0.ret THEN [ret |-> TRUE, net |-> r0.net,
                       l0 |-> r0.level, l1 |-> l1, l2 |-> l2]
       ELSE IF r1.ret THEN [ret |-> TRUE, net |-> r1.net,
                            l0 |-> l0, l1 |-> r1.level, l2 |-> l2]
       ELSE IF r2.ret THEN [ret |-> TRUE, net |-> r2.net,
                            l0 |-> l0, l1 |-> l1, l2 |-> r2.level]
       ELSE [ret |-> FALSE, net |-> g, l0 |-> l0, l1 |-> l1, l2 |-> l2]

MaxCap == 2         \* largest capacity of a ladder level
MaxCaptures == 4    \* most end-of-epoch captures in a run
MaxReverts == 1     \* most reverts in a run

Min(a, b) == IF a < b THEN a ELSE b

\* what the checkpoint operations leave alone
CkptFrame ==
    UNCHANGED <<lastInj, pendInj, steps, pairVars, edgeVars, auxVars, cfg>>

\* `if (cfg.checkpoints_enable) onEpochEndCapture(cfg)` at the end of an epoch
EpochEndCapture ==
    /\ LET r == onEpochEndCapture(cfg, ckpt_l0, ckpt_l1, ckpt_l2,
                                  captureSnapshot(net))
       IN ckpt_l0' = r.l0 /\ ckpt_l1' = r.l1 /\ ckpt_l2' = r.l2
    /\ captured' = captureSnapshot(net)
    /\ stamps' = onEpochEndCapture(cfg, stamps.l0, stamps.l1, stamps.l2,
                                   captures + 1)
    /\ prev' = net
    /\ lastOp' = "capture"
    /\ UNCHANGED <<net, lastRet>> /\ CkptFrame

\* a call of revertOneCheckpoint; prev keeps the network it was called on
RevertCheckpoint ==
    /\ LET r == revertOneCheckpoint(net, ckpt_l0, ckpt_l1, ckpt_l2)
       IN /\ net' = r.net /\ lastRet' = r.ret
          /\ ckpt_l0' = r.l0 /\ ckpt_l1' = r.l1 /\ ckpt_l2' = r.l2
          /\ stamps' = [l0 |-> SubSeq(stamps.l0, 1, Len(r.l0)),
                        l1 |-> SubSeq(stamps.l1, 1, Len(r.l1)),
                        l2 |-> SubSeq(stamps.l2, 1, Len(r.l2))]
    /\ captured' = NoSnapshot
    /\ prev' = net
    /\ lastOp' = "revert"
    /\ CkptFrame

\* a training update that turns the network into g
Change(g) ==
    /\ g # net
    /\ net' = g
    /\ prev' = g
    /\ lastOp' = "change"
    /\ UNCHANGED <<ckpt_l0, ckpt_l1, ckpt_l2, lastRet, captured, stamps>>
    /\ CkptFrame

\* the ladder alone: capacities 0..MaxCap, captures, reverts, and threshold
\* updates that tell the snapshots apart
LadderInit ==
    /\ net = DefaultNet
    /\ \E c0, c1, c2 \in 0..MaxCap :
        cfg = [DefaultConfig EXCEPT !.ckpt_l0 = c0, !.ckpt_l1 = c1, !.ckpt_l2 = c2]
    /\ ckpt_l0 = <<>> /\ ckpt_l1 = <<>> /\ ckpt_l2 = <<>>
    /\ captures = 0 /\ reverts = 0 /\ lastRet = FALSE
    /\ captured = NoSnapshot /\ stamps = NoStamps
    /\ SimIdle /\ AuxIdle /\ PairIdle /\ EdgeIdle

LCapture ==
    /\ captures < MaxCaptures
    /\ captures' = captures + 1
    /\ EpochEndCapture
    /\ UNCHANGED reverts

LRevert ==
    /\ reverts < MaxReverts
    /\ reverts' = reverts + 1
    /\ RevertCheckpoint
    /\ UNCHANGED captures

\* intrinsic plasticity moving a threshold between two epochs
LSetThreshold(n, t) ==
    /\ Change(setThreshold(net, n, t))
    /\ UNCHANGED <<captures, reverts>>

LadderNext ==
    \/ LCapture
    \/ LRevert
    \/ \E t \in Thresholds : LSetThreshold(H0, t)

SpecLadder == LadderInit /\ [][LadderNext]_vars

Retained == Len(ckpt_l0) + Len(ckpt_l1) + Len(ckpt_l2)
Capacity == cfg.ckpt_l0 + cfg.ckpt_l1 + cfg.ckpt_l2

\* C7: after k end-of-epoch captures into a ladder with capacities
\* (c0, c1, c2) and no revert, L0, L1 and L2 together hold min(k, c0+c1+c2)
\* snapshots; no level ever holds more snapshots than its capacity.
C7_LadderCapacity ==
    /\ reverts = 0 => Retained = Min(captures, Capacity)
    /\ Len(ckpt_l0) <= cfg.ckpt_l0
    /\ Len(ckpt_l1) <= cfg.ckpt_l1
    /\ Len(ckpt_l2) <= cfg.ckpt_l2

\* more captures than the ladder has room for, every level in use, no revert
C7_Witness ==
    /\ reverts = 0
    /\ captures > Capacity
    /\ cfg.ckpt_l0 > 0 /\ cfg.ckpt_l1 > 0 /\ cfg.ckpt_l2 > 0
    /\ Retained = Capacity


\* the capture numbers of all snapshots a ladder holds
Held(st) == Range(st.l0) \cup Range(st.l1) \cup Range(st.l2)
Newest(S) == CHOOSE x \in S : \A y \in S : y <= x
Oldest(S) == CHOOSE x \in S : \A y \in S : x <= y

\* the snapshot of the ladder that was taken by capture number k
SnapshotOf(k) ==
    LET Find(level, st) ==
            {level[i] : i \in {j \in 1..Len(level) : st[j] = k}}
    IN CHOOSE x \in Find(ckpt_l0, stamps.l0) \cup Find(ckpt_l1, stamps.l1)
                    \cup Find(ckpt_l2, stamps.l2) : TRUE

\* every snapshot of `newer` was captured after every snapshot of `older`,
\* and each level runs from its oldest to its newest snapshot
LadderOrdered ==
    /\ \A a \in Range(stamps.l0), b \in Range(stamps.l1) \cup Range(stamps.l2) :
            a > b
    /\ \A a \in Range(stamps.l1), b \in Range(stamps.l2) : a > b
    /\ \A lv \in {stamps.l0, stamps.l1, stamps.l2} :
            \A i, j \in 1..Len(lv) : i < j => lv[i] < lv[j]

----------------------------------------------------------------------------
(* Checkpoints under training updates: capture, change, revert *)

\* the ladders the runs below use: the levels in use one at a time and
\* together, and a ladder that keeps nothing
CkptCapacities == {<<1, 1, 1>>, <<1, 0, 1>>, <<0, 1, 0>>, <<0, 0, 0>>}
CkptWeights == {2, 3}

CkptInit ==
    /\ net = DefaultNet
    /\ \E c \in CkptCapacities :
        cfg = [DefaultConfig EXCEPT !.ckpt_l0 = c[1], !.ckpt_l1 = c[2],
                                    !.ckpt_l2 = c[3]]
    /\ ckpt_l0 = <<>> /\ ckpt_l1 = <<>> /\ ckpt_l2 = <<>>
    /\ captures = 0 /\ reverts = 0 /\ lastRet = FALSE
    /\ captured = NoSnapshot /\ stamps = NoStamps
    /\ SimIdle /\ AuxIdle /\ PairIdle /\ EdgeIdle

CCapture == EpochEndCapture /\ UNCHANGED <<captures, reverts>>
CRevert  == RevertCheckpoint /\ UNCHANGED <<captures, reverts>>

\* applyDeltas: from.setTransmitter(to_id, w) on an existing edge
CSetTransmitter(from, to, w) ==
    /\ to \in DOMAIN net[from].connections
    /\ Change(setTransmitter(net, from, to, w))
    /\ UNCHANGED <<captures, reverts>>

\* grow: from->addConnection(w, *to) for an edge that is not there
CAddConnection(from, to, w) ==
    /\ to \notin DOMAIN net[from].connections
    /\ Change(NeuronAddConnection(net, from, w, to))
    /\ UNCHANGED <<captures, reverts>>

\* prune: from->removeConnection(to)
CRemoveConnection(from, to) ==
    /\ to \in DOMAIN net[from].connections
    /\ Change(removeConnection(net, from, to))
    /\ UNCHANGED <<captures, reverts>>

\* intrinsic plasticity: n.setThreshold(...) and n.setLeak(...)
CSetThreshold(n, t) ==
    /\ Change(setThreshold(net, n, t))
    /\ UNCHANGED <<captures, reverts>>

CSetLeak(n, l) ==
    /\ Change(setLeak(net, n, l))
    /\ UNCHANGED <<captures, reverts>>

CkptNext ==
    \/ CCapture
    \/ CRevert
    \/ \E w \in CkptWeights : CSetTransmitter(S0, H0, w)
    \/ \E w \in CkptWeights : CAddConnection(S0, H0, w)
    \/ CRemoveConnection(S0, H0)
    \/ \E t \in Thresholds : CSetThreshold(H0, t)
    \/ \E l \in {LeakScale - 1, LeakScale} : CSetLeak(H0, l)

SpecCkpt == CkptInit /\ [][CkptNext]_vars

LadderEmpty == ckpt_l0 = <<>> /\ ckpt_l1 = <<>> /\ ckpt_l2 = <<>>

\* C8: when a checkpoint was captured and the network was then changed by
\* any sequence of weight changes, edge additions, edge removals and
\* threshold and leak changes, a revertOneCheckpoint that returns true leaves
\* the network with exactly the captured edges, the captured weight on every
\* edge and the captured threshold and leak on every neuron.
C8_RevertRestoresCapture ==
    [][(lastOp' = "revert" /\ lastRet' /\ captured # NoSnapshot) =>
        captureSnapshot(net') = captured]_vars

\* a revert returned true on a network that differed from the capture in its
\* edge set and in a threshold or a leak
C8_Witness ==
    /\ lastOp = "revert" /\ lastRet
    /\ EdgeSet(prev) # EdgeSet(net)
    /\ \E n \in Ids : \/ prev[n].threshold # net[n].threshold
                      \/ prev[n].balancer # net[n].balancer

\* C9: a revert requested while all three levels are empty returns false
\* and leaves the network and the ladder unchanged; a revert returns true
\* exactly when some level was not empty.
C9_RevertOnEmptyLadder ==
    [][lastOp' = "revert" =>
        /\ lastRet' <=> ~LadderEmpty
        /\ LadderEmpty =>
            /\ net' = net
            /\ ckpt_l0' = ckpt_l0 /\ ckpt_l1' = ckpt_l1 /\ ckpt_l2' = ckpt_l2]_vars

\* a revert on an empty ladder returned false after the network had changed
C9_Witness ==
    /\ lastOp = "revert" /\ ~lastRet
    /\ LadderEmpty
    /\ net # DefaultNet

----------------------------------------------------------------------------
(* Snapshot round trip: network N (net) runs, its snapshot is restored into *)
(* a second network N' (net2) with the same neurons, and both then get the  *)
(* same injections and steps                                                *)

\* N' before the restore: a newly built network whose edges, weights,
\* thresholds and leaks are not those of N
Blank(r) ==
    BuildNet([n \in Ids |-> 2], [n \in Ids |-> 0], [n \in Ids |-> r],
             {<<S0, O0, 1>>, <<H0, O0, 1>>})

\* what a snapshot does not hold: resting potential, refractory period,
\* membrane potential, the two input registers and the refractory counter
SameUnsaved(g, h) ==
    \A n \in Ids :
        /\ g[n].resting = h[n].resting
        /\ g[n].refractory_period = h[n].refractory_period
        /\ g[n].value = h[n].value
        /\ g[n].delta = h[n].delta
        /\ g[n].on_deck = h[n].on_deck
        /\ g[n].refractory = h[n].refractory

SnapInit ==
    /\ \E thr \in [Ids -> Thresholds], l \in Leaks, r \in {0, 1},
          edges \in {Chain, Chain \cup {<<H0, H0, 1>>}} :
          net = BuildNet(thr, [n \in Ids |-> l], [n \in Ids |-> r], edges)
    /\ \E r2 \in {0, 1} : net2 = Blank(r2)
    /\ probe = NoProbe /\ synced = FALSE
    /\ SimIdle /\ AuxIdle /\ CkptIdle /\ EdgeIdle

\* Glia::injectSensory on N alone, before the snapshot is taken
NInject(id, amt) ==
    /\ probe = NoProbe
    /\ pendInj[id] = 0
    /\ net' = injectSensory(net, id, amt)
    /\ pendInj' = [pendInj EXCEPT ![id] = amt]
    /\ UNCHANGED <<net2, prev, lastInj, lastOp, steps, probe, synced>>
    /\ UNCHANGED <<ckptVars, edgeVars, auxVars>>

\* Glia::step on N alone, before the snapshot is taken
NStep ==
    /\ probe = NoProbe
    /\ steps < MaxSteps
    /\ net' = step(net)
    /\ steps' = steps + 1
    /\ pendInj' = ZeroInj
    /\ UNCHANGED <<net2, prev, lastInj, lastOp, probe, synced>>
    /\ UNCHANGED <<ckptVars, edgeVars, auxVars>>

\* captureSnapshot on N and restoreSnapshot of the result on N'; probe.at
\* keeps the tick of the restore, synced whether N' agreed with N at that
\* moment in everything the snapshot does not hold
CaptureRestore ==
    /\ probe = NoProbe
    /\ net2' = restoreSnapshot(net2, captureSnapshot(net))
    /\ probe' = [at |-> steps, id |-> <<>>]
    /\ synced' = SameUnsaved(net, net2)
    /\ UNCHANGED <<net, prev, lastInj, pendInj, lastOp, steps>>
    /\ UNCHANGED <<ckptVars, edgeVars, auxVars>>

\* the same Glia::injectSensory on N and N' after the restore
PairInject(id, amt) ==
    /\ probe # NoProbe
    /\ pendInj[id] = 0
    /\ net' = injectSensory(net, id, amt)
    /\ net2' = injectSensory(net2, id, amt)
    /\ pendInj' = [pendInj EXCEPT ![id] = amt]
    /\ UNCHANGED <<prev, lastInj, lastOp, steps, probe, synced>>
    /\ UNCHANGED <<ckptVars, edgeVars, auxVars>>

\* Glia::step on N and N' after the restore
PairStep ==
    /\ probe # NoProbe
    /\ steps < MaxSteps
    /\ net' = step(net)
    /\ net2' = step(net2)
    /\ steps' = steps + 1
    /\ pendInj' = ZeroInj
    /\ UNCHANGED <<prev, lastInj, lastOp, probe, synced>>
    /\ UNCHANGED <<ckptVars, edgeVars, auxVars>>

SnapNext ==
    \/ \E id \in sensory_mapping, amt \in 1..MaxAmt : NInject(id, amt)
    \/ NStep
    \/ CaptureRestore
    \/ \E id \in sensory_mapping, amt \in 1..MaxAmt : PairInject(id, amt)
    \/ PairStep

SpecSnap == SnapInit /\ [][SnapNext]_vars

SameFiring == \A n \in Ids : net[n].just_fired = net2[n].just_fired

\* C6 as stated: once a snapshot of N, taken at any reachable state, is
\* restored into a network N' with the same neurons (here: the same ids,
\* resting potentials and refractory periods), the two networks fire alike
\* on every later tick when they are fed the same inputs.
C6_RoundTripEquivalent ==
    (/\ probe # NoProbe /\ steps > probe.at
     /\ \A n \in Ids : /\ net[n].resting = net2[n].resting
                       /\ net[n].refractory_period = net2[n].refractory_period)
        => SameFiring

\* C6 amended: the restore makes N' equal to N in edges, weights, thresholds
\* and leaks; when N' also agreed with N, at the restore, in what the
\* snapshot does not hold (resting potential, refractory period, membrane
\* potential, input registers, refractory counter), N' and N fire alike on
\* every later tick under the same inputs.
C6_RoundTripOfParameters ==
    probe # NoProbe =>
        /\ captureSnapshot(net2) = captureSnapshot(net)
        /\ (synced /\ steps > probe.at) => SameFiring

\* N ran before the snapshot, N' agreed with it in the unsaved state, and a
\* neuron fired in a later tick
C6_Witness ==
    /\ probe # NoProbe /\ synced
    /\ probe.at > 0
    /\ steps > probe.at
    /\ \E n \in neuron_mapping : net[n].just_fired /\ net2[n].just_fired

----------------------------------------------------------------------------
(* The rate detector: FiringRateTracker::update and ::argmax (predict) *)

RateScale == 4      \* a rate of 1.0 is RateScale units
MaxIdList == 3      \* longest id list handed to argmax

O1 == <<"O", 1>>
OutputIds == {O0, O1}
NoId == <<>>                 \* the empty string
Fallback == <<"N", 0>>       \* a default id that is no output

\* FiringRateTracker::getRate: 0 for an id that is not tracked
getRate(r, id) == IF id \in DOMAIN r THEN r[id] ELSE 0

\* FiringRateTracker::update with alpha = 1/2:
\* rates[id] = (1 - alpha) * rates[id] + alpha * (fired ? 1 : 0)
update(r, id, fired) ==
    LET old == getRate(r, id)
        new == (old + (IF fired THEN RateScale ELSE 0)) \div 2
    IN (id :> new) @@ r

\* the loop of argmax over the ids from position i on, carrying
\* (max_id, max_rate)
RECURSIVE ArgmaxLoop(_, _, _, _, _)
ArgmaxLoop(r, ids, i, max_id, max_rate) ==
    IF i > Len(ids) THEN [max_id |-> max_id, max_rate |-> max_rate]
    ELSE IF getRate(r, ids[i]) > max_rate
         THEN ArgmaxLoop(r, ids, i + 1, ids[i], getRate(r, ids[i]))
         ELSE ArgmaxLoop(r, ids, i + 1, max_id, max_rate)

\* argmax without the threshold test
argmaxIgnoringThreshold(r, neuron_ids, default_id, threshold) ==
    ArgmaxLoop(r, neuron_ids, 1, NoId, -RateScale).max_id

\* FiringRateTracker::argmax; max_rate starts at -1.0
argmax(r, neuron_ids, default_id, threshold) ==
    LET m == ArgmaxLoop(r, neuron_ids, 1, NoId, -RateScale)
    IN IF m.max_rate < threshold THEN default_id ELSE m.max_id

\* every list over S of length at most n
SeqsUpTo(S, n) == UNION {[1..k -> S] : k \in 0..n}

DetectInit ==
    /\ rates = <<>>
    /\ call = NoCall
    /\ net = DefaultNet
    /\ TrainIdle /\ EvoIdle
    /\ SimIdle /\ PairIdle /\ CkptIdle /\ EdgeIdle

DetectFrame ==
    UNCHANGED <<simVars, pairVars, ckptVars, edgeVars, trainVars, evoVars>>

\* tracker.update(id, neuron->didFire()) after a tick
Update(id, fired) ==
    /\ rates' = update(rates, id, fired)
    /\ call' = NoCall
    /\ DetectFrame

\* detector.predict(ids): argmax over ids with the configured default id and
\* threshold; one call is observed between two updates
Predict(ids, default_id, threshold) ==
    /\ call = NoCall
    /\ call' = [op |-> "predict", ids |-> ids, default_id |-> default_id,
                threshold |-> threshold,
                ret |-> argmax(rates, ids, default_id, threshold)]
    /\ UNCHANGED rates
    /\ DetectFrame

DetectNext ==
    \/ \E id \in OutputIds, fired \in BOOLEAN : Update(id, fired)
    \/ \E ids \in SeqsUpTo(OutputIds, MaxIdList), d \in {NoId, O0, Fallback},
          th \in 0..(RateScale + 1) : Predict(ids, d, th)

SpecDetect == DetectInit /\ [][DetectNext]_vars

\* the largest tracked rate over a non-empty list
MaxRate(r, ids) ==
    CHOOSE m \in {getRate(r, ids[i]) : i \in 1..Len(ids)} :
        \A i \in 1..Len(ids) : getRate(r, ids[i]) <= m

\* C11: predict on a list of output ids returns an id of the list whose
\* rate is the maximum over the list whenever that maximum is at least the
\* threshold, returns the default id (possibly empty) whenever the maximum
\* is below the threshold, and never returns anything but an id of the list
\* or the default id.
C11_PredictArgmax ==
    call.op = "predict" =>
        /\ call.ret \in Range(call.ids) \cup {call.default_id}
        /\ call.ids # <<>> =>
            LET m == MaxRate(rates, call.ids)
            IN /\ m >= call.threshold =>
                    /\ call.ret \in Range(call.ids)
                    /\ getRate(rates, call.ret) = m
               /\ m < call.threshold => call.ret = call.default_id

\* predict picked, among ids with different positive rates, one that is not
\* the first of the list and not the default
C11_Witness ==
    /\ call.op = "predict"
    /\ Len(call.ids) >= 2
    /\ call.threshold > 0
    /\ call.ret # call.default_id
    /\ call.ret # call.ids[1]
    /\ getRate(rates, call.ids[1]) > 0
    /\ getRate(rates, call.ret) > getRate(rates, call.ids[1])

----------------------------------------------------------------------------
(* Trainer: one episode *)

\* a / b rounded toward zero, b > 0: the grid's rounding of a float quotient
Quot(a, b) == IF a >= 0 THEN a \div b ELSE -((-a) \div b)

\* the network being trained: one sensory neuron and two output neurons
TrainSensory == <<S0>>
TrainNeurons == <<O0, O1>>
TrainIds == Range(TrainSensory) \cup Range(TrainNeurons)

\* Glia::step over the trained network's neuron lists
TrainStep(g) == TickAll(TickAll(g, TrainSensory), TrainNeurons)

\* F applied to the value of v, which is computed once
Bind(v, F(_)) == CHOOSE r \in {F(x) : x \in {v}} : TRUE

\* Trainer::collectOutputIDs: the ids that start with 'O', in visiting order
collectOutputIDs == SelectSeq(TrainSensory \o TrainNeurons,
                              LAMBDA id : Head(id) = "O")

\* the edges of a network, as <<from, to>> pairs
Edges(g) == {<<f, t>> \in (DOMAIN g) \X (DOMAIN g) :
                t \in DOMAIN g[f].connections}

\* Trainer::injectFromSequence: every entry of the current inputs goes
\* through Glia::injectSensory
RECURSIVE InjectAll(_, _, _)
InjectAll(g, inputs, todo) ==
    IF todo = {} THEN g
    ELSE LET id == CHOOSE x \in todo : TRUE
         IN InjectAll(injectSensory(g, id, inputs[id]), inputs, todo \ {id})

injectFromSequence(g, inputs) == InjectAll(g, inputs, DOMAIN inputs)

\* Trainer::updateDetector: the detector sees didFire() of every output
RECURSIVE updateDetector(_, _, _)
updateDetector(det, g, ids) ==
    IF ids = <<>> THEN det
    ELSE updateDetector(
            IF Head(ids) \in DOMAIN g
            THEN update(det, Head(ids), g[Head(ids)].just_fired) ELSE det,
            g, Tail(ids))

\* FiringRateTracker::getMargin: 0 for fewer than two ids, else the highest
\* rate minus the second highest
getMargin(r, neuron_ids) ==
    IF Len(neuron_ids) < 2 THEN 0
    ELSE LET top == CHOOSE i \in 1..Len(neuron_ids) :
                        \A j \in 1..Len(neuron_ids) :
                            getRate(r, neuron_ids[j]) <= getRate(r, neuron_ids[i])
             second == CHOOSE i \in (1..Len(neuron_ids)) \ {top} :
                        \A j \in (1..Len(neuron_ids)) \ {top} :
                            getRate(r, neuron_ids[j]) <= getRate(r, neuron_ids[i])
         IN getRate(r, neuron_ids[top]) - getRate(r, neuron_ids[second])

\* eligibility is counted in units of 1/RateScale, elig_lambda in halves
LambdaScale == 2

\* one pass of the tick loop of computeEpisodeDelta: inject, step, update
\* neuron_rate (rate_alpha = 1/2) for every neuron, then the eligibility
\* e = elig_lambda * e + pre * post of every edge, then the detector
EpisodeTick(c, st, inputs) ==
    Bind(TrainStep(injectFromSequence(st.g, inputs)), LAMBDA g :
    Bind([n \in DOMAIN g |->
            (getRate(st.nr, n) + (IF g[n].just_fired THEN RateScale ELSE 0))
                \div 2], LAMBDA nr :
    [g |-> g, nr |-> nr @@ st.nr,
     elig |-> [k \in Edges(g) |->
                LET e    == IF k \in DOMAIN st.elig THEN st.elig[k] ELSE 0
                    pre  == IF g[k[1]].just_fired THEN 1 ELSE 0
                    post == IF c.elig_post_use_rate THEN nr[k[2]]
                            ELSE IF g[k[2]].just_fired THEN RateScale ELSE 0
                IN Quot(c.elig_lambda * e, LambdaScale) + pre * post],
     det |-> updateDetector(st.det, g, collectOutputIDs)]))

\* the loop for (t = 0; t < U + W; ++t); a sequence that has run out
\* supplies no inputs
RECURSIVE EpisodeLoop(_, _, _, _)
EpisodeLoop(c, st, seq, t) ==
    IF t > c.warmup_ticks + c.decision_window THEN st
    ELSE Bind(EpisodeTick(c, st, IF t <= Len(seq) THEN seq[t] ELSE <<>>),
              LAMBDA nx : EpisodeLoop(c, nx, seq, t + 1))

\* Trainer::targetMargin: the target's rate minus the highest other rate
targetMargin(mrates, target_id) ==
    LET rT == IF target_id \in DOMAIN mrates THEN mrates[target_id] ELSE 0
        others == (DOMAIN mrates) \ {target_id}
        rMaxOther == IF others = {} THEN 0
                     ELSE CHOOSE x \in {mrates[k] : k \in others} :
                            \A k \in others : mrates[k] <= x
    IN rT - rMaxOther

\* computeReward with the two outcomes of binary mode exchanged
computeRewardSwapped(m, c, target_id) ==
    IF m.winner_id = target_id /\ m.margin >= c.margin_delta
    THEN c.reward_neg ELSE c.reward_pos

\* Trainer::computeReward. margin_linear clamps reward_gain * target margin
\* (the margin in units of 1/RateScale, the gain in units of RateScale);
\* every mode other than margin_linear and softplus_margin is binary.
computeReward(m, c, target_id) ==
    IF c.reward_mode = "margin_linear"
    THEN LET r == c.reward_gain * targetMargin(m.rates, target_id)
         IN IF r < c.reward_min THEN c.reward_min
            ELSE IF r > c.reward_max THEN c.reward_max ELSE r
    ELSE IF m.winner_id = target_id /\ m.margin >= c.margin_delta
         THEN c.reward_pos ELSE c.reward_neg

\* the update gate with winner_only applied on an abstention as well
TakeGatedOnAbstention(c, m, target_id, to_id) ==
    IF c.update_gating = "winner_only" THEN to_id = m.winner_id
    ELSE IF c.update_gating = "target_only" THEN to_id = target_id
    ELSE TRUE

\* the update gate of computeEpisodeDelta: which edges take a delta
Take(c, m, target_id, to_id) ==
    IF c.update_gating = "winner_only"
    THEN (m.winner_id # NoId => to_id = m.winner_id)
    ELSE IF c.update_gating = "target_only" THEN to_id = target_id
    ELSE TRUE

\* Trainer::computeEpisodeDelta on network g with the trainer's neuron_rate
\* nr and reward_baseline b (baseline_beta = 1/2). lr is counted in units of
\* RateScale weight units, so that lr * reward * e is a whole number of weight
\* units. The result carries the network and trainer state after the
\* episode, the metrics, the eligibilities and the delta map.
computeEpisodeDelta(g, nr, b, c, item) ==
    Bind(EpisodeLoop(c, [g |-> g, nr |-> nr, elig |-> <<>>, det |-> <<>>],
                     item.seq, 1), LAMBDA st :
    Bind([winner_id |-> argmax(st.det, collectOutputIDs, c.detector.default_id,
                               c.detector.threshold),
          margin |-> getMargin(st.det, collectOutputIDs),
          rates |-> [id \in Range(collectOutputIDs) |-> getRate(st.det, id)]],
         LAMBDA m :
    LET reward_raw == computeReward(m, c, item.target_id)
        adv == reward_raw - b
        b1 == IF c.use_advantage_baseline THEN Quot(b + reward_raw, 2) ELSE b
        r1 == IF c.use_advantage_baseline THEN adv ELSE reward_raw
        reward == IF /\ c.no_update_if_satisfied
                     /\ m.winner_id = item.target_id
                     /\ m.margin >= c.margin_delta
                  THEN 0 ELSE r1
        taken == {k \in Edges(st.g) : Take(c, m, item.target_id, k[2])}
        elig == [k \in Edges(st.g) |->
                    IF k \in DOMAIN st.elig THEN st.elig[k] ELSE 0]
    IN [g |-> st.g, nr |-> st.nr, baseline |-> b1, m |-> m,
        target_id |-> item.target_id,
        reward_raw |-> reward_raw, reward |-> reward, elig |-> elig,
        delta |-> [k \in taken |-> c.lr * reward * elig[k]],
        usage |-> [k \in taken |-> elig[k]]]))

----------------------------------------------------------------------------
(* Trainer: one batch *)

\* weight_decay is counted in halves
DecayScale == 2

Abs(x) == IF x < 0 THEN -x ELSE x

\* sum_delta[k] += d[k] for every key of d
AddMaps(a, d) ==
    [k \in (DOMAIN a) \cup (DOMAIN d) |->
        (IF k \in DOMAIN a THEN a[k] ELSE 0) + (IF k \in DOMAIN d THEN d[k] ELSE 0)]

\* the new weight applyDeltas gives one edge: the scaled delta, then the
\* decay, then the clip; size is the batch size (scale = 1 if it is 0)
NewWeight(c, w, k, delta, size) ==
    LET w1 == IF k \in DOMAIN delta
              THEN w + (IF size = 0 THEN delta[k] ELSE Quot(delta[k], size))
              ELSE w
        w2 == w1 - Quot(c.weight_decay * w1, DecayScale)
    IN IF c.weight_clip > 0
       THEN IF w2 > c.weight_clip THEN c.weight_clip
            ELSE IF w2 < -c.weight_clip THEN -c.weight_clip ELSE w2
       ELSE w2

\* applyDeltas that skips the decay step
applyDeltasNoDecay(g, delta, size, c) ==
    [n \in DOMAIN g |->
        [g[n] EXCEPT !.connections =
            [t \in DOMAIN @ |->
                IF <<n, t>> \in DOMAIN delta
                THEN @[t] + (IF size = 0 THEN delta[<<n, t>>]
                             ELSE Quot(delta[<<n, t>>], size))
                ELSE @[t]]]]

\* Trainer::applyDeltas
applyDeltas(g, delta, size, c) ==
    [n \in DOMAIN g |->
        [g[n] EXCEPT !.connections =
            [t \in DOMAIN @ |-> NewWeight(c, @[t], <<n, t>>, delta, size)]]]

\* the usage boost of trainBatch: w += usage_boost_gain * avg_reward * usage
\* with usage = sum_usage / size clamped to [0, 1]; the gain is counted in
\* units of RateScale weight units
usageBoost(g, acc, size, c) ==
    IF c.usage_boost_gain = 0 \/ size = 0 THEN g
    ELSE [n \in DOMAIN g |->
            [g[n] EXCEPT !.connections =
                [t \in DOMAIN @ |->
                    LET u0 == IF <<n, t>> \in DOMAIN acc.sum_usage
                              THEN Quot(acc.sum_usage[<<n, t>>], size) ELSE 0
                        usage == IF u0 < 0 THEN 0
                                 ELSE IF u0 > RateScale THEN RateScale ELSE u0
                    IN @[t] + Quot(c.usage_boost_gain * acc.sum_reward * usage,
                                   size)]]]

\* the prune counters after a batch: one more for an edge below
\* prune_epsilon, zero for the others
pruneCounters(g, pcnt, c) ==
    [k \in Edges(g) |->
        IF Abs(g[k[1]].connections[k[2]]) < c.prune_epsilon
        THEN (IF k \in DOMAIN pcnt THEN pcnt[k] ELSE 0) + 1
        ELSE 0] @@ pcnt

\* pruning that waits one batch more: counter above prune_patience
pruneEdgesLate(g, pcnt, c) ==
    [n \in DOMAIN g |->
        [g[n] EXCEPT !.connections =
            [t \in {x \in DOMAIN @ :
                        ~(/\ Abs(@[x]) < c.prune_epsilon
                          /\ pcnt[<<n, x>>] > c.prune_patience)} |-> @[t]]]]

\* the edges removed after a batch: counter at prune_patience or above
pruneEdges(g, pcnt, c) ==
    [n \in DOMAIN g |->
        [g[n] EXCEPT !.connections =
            [t \in {x \in DOMAIN @ :
                        ~(/\ Abs(@[x]) < c.prune_epsilon
                          /\ pcnt[<<n, x>>] >= c.prune_patience)} |-> @[t]]]]

\* intrinsic plasticity that leaves the new leak unclamped
intrinsicPlasticityNoClamp(g, nr, c) ==
    [n \in DOMAIN g |->
        [g[n] EXCEPT
            !.threshold = IF c.eta_theta # 0
                          THEN @ + c.eta_theta * (getRate(nr, n) - c.r_target)
                          ELSE @,
            !.balancer = IF c.eta_leak # 0
                         THEN @ + c.eta_leak * (c.r_target - getRate(nr, n))
                         ELSE @]]

\* intrinsic plasticity after a batch; eta_theta is counted in units of
\* RateScale value units, eta_leak in units of RateScale / LeakScale
intrinsicPlasticity(g, nr, c) ==
    [n \in DOMAIN g |->
        LET r == getRate(nr, n)
            thr == IF c.eta_theta # 0
                   THEN g[n].threshold + c.eta_theta * (r - c.r_target)
                   ELSE g[n].threshold
            nl == g[n].balancer + c.eta_leak * (c.r_target - r)
            leak == IF c.eta_leak # 0
                    THEN IF nl < 0 THEN 0
                         ELSE IF nl > LeakScale THEN LeakScale ELSE nl
                    ELSE g[n].balancer
        IN [g[n] EXCEPT !.threshold = thr, !.balancer = leak]]

\* Trainer::trainBatch after its loop over the batch, for a configuration
\* with grow_edges = 0 and the inactive-neuron pruning off
\* (inactive_rate_threshold = 0, the default): acc carries sum_delta,
\* sum_usage and sum_reward, size is the batch size. The result carries the
\* network, neuron_rate and prune_counter after the batch.
finishBatch(g, nr, pcnt, c, acc, size) ==
    Bind(usageBoost(applyDeltas(g, acc.sum_delta, size, c), acc, size, c),
         LAMBDA g2 :
    Bind(pruneCounters(g2, pcnt, c), LAMBDA pc1 :
    Bind(pruneEdges(g2, pc1, c), LAMBDA g3 :
    Bind([n \in DOMAIN g3 |-> getRate(nr, n)] @@ nr, LAMBDA nr1 :
    [g |-> intrinsicPlasticity(g3, nr1, c), nr |-> nr1,
     prune_counter |-> pc1]))))

----------------
(* Trainer: trainBatch and trainEpoch on the two-output network *)

MaxBatches == 2     \* most trainBatch calls in a run

\* accuracy is counted in units of 1/AccScale
AccScale == 4

\* the fields of TrainingConfig the trainer reads, on the grids above; the
\* fields that vary are set by TrainInit
TrainConfig ==
    [warmup_ticks |-> 1, decision_window |-> 3,
     detector |-> [threshold |-> 1, default_id |-> NoId],
     lr |-> 1, elig_lambda |-> LambdaScale, weight_decay |-> 1,
     margin_delta |-> 1, reward_pos |-> 2, reward_neg |-> -1,
     reward_mode |-> "binary", reward_gain |-> 1, reward_min |-> -RateScale,
     reward_max |-> RateScale, update_gating |-> "none",
     no_update_if_satisfied |-> TRUE, use_advantage_baseline |-> TRUE,
     r_target |-> 0, elig_post_use_rate |-> TRUE, eta_theta |-> 0,
     eta_leak |-> 0, prune_epsilon |-> 2, prune_patience |-> 2,
     weight_clip |-> 0, batch_size |-> 1, shuffle |-> FALSE,
     weight_jitter_std |-> 0, usage_boost_gain |-> 0,
     checkpoints_enable |-> FALSE, revert_enable |-> FALSE] @@ DefaultConfig

\* a trained network: thresholds thr, no leak, resting 0, the given edges
BuildTrainNet(thr, edges) ==
    [n \in TrainIds |->
        [NewNeuron(0, LeakScale, 4, thr[n])
            EXCEPT !.connections = ConnOf(edges, n)]]

TrainNets ==
    { BuildTrainNet((S0 :> 1) @@ (O0 :> 1) @@ (O1 :> 5),
                    {<<S0, O0, 8>>, <<S0, O1, 4>>, <<O0, O1, 1>>}),
      BuildTrainNet((S0 :> 1) @@ (O0 :> 5) @@ (O1 :> 1),
                    {<<S0, O0, 4>>, <<S0, O1, 8>>, <<O1, O0, -4>>}) }

\* episodes: a sequence that drives S0 on every tick, or an empty one
Drive == [t \in 1..4 |-> (S0 :> 2)]
Episodes ==
    { [seq |-> Drive, target_id |-> O0],
      [seq |-> Drive, target_id |-> O1],
      [seq |-> <<>>, target_id |-> O0] }

Batches ==
    { <<>> } \cup {<<e>> : e \in Episodes}
    \cup { <<[seq |-> Drive, target_id |-> O0], [seq |-> Drive, target_id |-> O1]>> }

Datasets == { <<>>, <<[seq |-> Drive, target_id |-> O0],
                      [seq |-> Drive, target_id |-> O1]>> }

\* the configurations trained: every update gate and reward shaping with the
\* rewards apart, and every shaping, clip and usage boost with both rewards 0
TrainConfigs ==
    {[TrainConfig EXCEPT
        !.update_gating = gate, !.no_update_if_satisfied = sat,
        !.use_advantage_baseline = base] :
        gate \in {"none", "winner_only", "target_only"}, sat, base \in BOOLEAN}
    \cup
    {[TrainConfig EXCEPT
        !.reward_pos = 0, !.reward_neg = 0, !.no_update_if_satisfied = sat,
        !.use_advantage_baseline = base, !.weight_clip = clip,
        !.usage_boost_gain = boost] :
        sat, base \in BOOLEAN, clip \in {0, 2}, boost \in {0, 1}}

TrainInit ==
    /\ net \in TrainNets
    /\ net2 = DefaultNet /\ probe = NoProbe /\ synced = FALSE
    /\ prev = net /\ lastInj = ZeroInj /\ pendInj = ZeroInj
    /\ lastOp = "init" /\ steps = 0
    /\ cfg \in TrainConfigs
    /\ ckpt_l0 = <<>> /\ ckpt_l1 = <<>> /\ ckpt_l2 = <<>>
    /\ captures = 0 /\ reverts = 0 /\ lastRet = FALSE
    /\ captured = NoSnapshot /\ stamps = NoStamps
    /\ EdgeIdle
    /\ rates = <<>> /\ call = NoCall
    /\ neuron_rate = <<>> /\ prune_counter = <<>>
    /\ reward_baseline \in {0, 1}   \* 1: left by training under another config
    /\ epoch_acc_hist = <<>> /\ epoch_margin_hist = <<>> /\ batches = 0
    /\ run = Idle /\ streak = <<>>
    /\ EvoIdle

TrainFrame ==
    UNCHANGED <<lastInj, pendInj, steps, pairVars, ckptVars, edgeVars, rates,
                streak, evoVars>>

NoEpoch == [i |-> 0]

\* trainBatch(batch, cfg) is entered, directly (epoch = NoEpoch) or from
\* trainEpoch: the sums start empty
EnterBatch(batch, epoch) ==
    [at |-> "batch", batch |-> batch, todo |-> batch, sum_delta |-> <<>>,
     sum_usage |-> <<>>, sum_reward |-> 0, metrics |-> <<>>, before |-> net,
     baseline |-> reward_baseline, epoch |-> epoch]

\* a call of Trainer::trainBatch(batch, cfg) begins
BatchBegin(batch) ==
    /\ run = Idle
    /\ batches < MaxBatches
    /\ run' = EnterBatch(batch, NoEpoch)
    /\ lastOp' = "other"
    /\ UNCHANGED <<net, prev, call, neuron_rate, reward_baseline,
                   prune_counter, epoch_acc_hist, epoch_margin_hist, batches>>
    /\ TrainFrame

\* one iteration of `for (const auto &item : batch)`: the episode's delta
\* and usage are added to the sums, its reward to sum_reward
BatchEpisode ==
    /\ run.at = "batch" /\ run.todo # <<>>
    /\ \E r \in {computeEpisodeDelta(net, neuron_rate, reward_baseline, cfg,
                                    Head(run.todo))} :
          /\ net' = r.g
          /\ neuron_rate' = r.nr
          /\ reward_baseline' = r.baseline
          /\ run' = [run EXCEPT
                        !.todo = Tail(@),
                        !.sum_delta = AddMaps(@, r.delta),
                        !.sum_usage = AddMaps(@, r.usage),
                        !.sum_reward = @ + computeReward(r.m, cfg, r.target_id),
                        !.metrics = Append(@, r.m)]
          /\ call' = [op |-> "episode", m |-> r.m, target_id |-> r.target_id,
                      reward_raw |-> r.reward_raw, reward |-> r.reward,
                      elig |-> r.elig, delta |-> r.delta]
    /\ prev' = net
    /\ lastOp' = "episode"
    /\ UNCHANGED <<prune_counter, epoch_acc_hist, epoch_margin_hist, batches>>
    /\ TrainFrame

\* the rest of trainBatch after the loop; prev keeps the network the call
\* was made on. Inside trainEpoch the epoch's totals take the batch's metrics.
BatchEnd ==
    /\ run.at = "batch" /\ run.todo = <<>>
    /\ \E r \in {finishBatch(net, neuron_rate, prune_counter, cfg, run,
                            Len(run.batch))} :
       LET ok == {k \in 1..Len(run.batch) :
                    run.metrics[k].winner_id = run.batch[k].target_id}
       IN /\ net' = r.g
          /\ neuron_rate' = r.nr
          /\ prune_counter' = r.prune_counter
          /\ run' = IF run.epoch = NoEpoch THEN Idle
                    ELSE [at |-> "epoch",
                          epoch |-> [run.epoch EXCEPT
                            !.epoch_total = @ + Len(run.batch),
                            !.epoch_correct = @ + Cardinality(ok),
                            !.epoch_margin_sum = @ + SumOver(1..Len(run.batch),
                                [k \in 1..Len(run.batch) |->
                                    run.metrics[k].margin])]]
    /\ call' = [op |-> "trainBatch", size |-> Len(run.batch),
                baseline |-> run.baseline]
    /\ prev' = run.before
    /\ lastOp' = "trainBatch"
    /\ batches' = Min(MaxBatches, batches + 1)
    /\ UNCHANGED <<reward_baseline, epoch_acc_hist, epoch_margin_hist>>
    /\ TrainFrame

\* a call of Trainer::trainEpoch(dataset, epochs, cfg) with epochs <= 1, for
\* a configuration without jitter, shuffle, checkpoints and revert: it
\* returns at once for an empty dataset or epochs <= 0, and otherwise
\* enters the loop over the dataset
EpochBegin(dataset, epochs) ==
    /\ run = Idle
    /\ batches < MaxBatches
    /\ run' = IF dataset = <<>> \/ epochs <= 0 THEN Idle
              ELSE [at |-> "epoch",
                    epoch |-> [dataset |-> dataset, i |-> 1, epoch_total |-> 0,
                               epoch_correct |-> 0, epoch_margin_sum |-> 0]]
    /\ call' = [op |-> "trainEpoch", size |-> Len(dataset), epochs |-> epochs]
    /\ prev' = net
    /\ lastOp' = "trainEpoch"
    /\ UNCHANGED <<net, neuron_rate, reward_baseline, prune_counter,
                   epoch_acc_hist, epoch_margin_hist, batches>>
    /\ TrainFrame

\* one iteration of `for (i = 0; i < dataset.size(); i += max(1, batch_size))`
\* up to its call of trainBatch on dataset[i .. j)
EpochBatch ==
    /\ run.at = "epoch" /\ run.epoch.i <= Len(run.epoch.dataset)
    /\ LET bs == IF cfg.batch_size > 1 THEN cfg.batch_size ELSE 1
           j == Min(Len(run.epoch.dataset), run.epoch.i + bs - 1)
       IN run' = EnterBatch(SubSeq(run.epoch.dataset, run.epoch.i, j),
                            [run.epoch EXCEPT !.i = @ + bs])
    /\ lastOp' = "other"
    /\ UNCHANGED <<net, prev, call, neuron_rate, reward_baseline,
                   prune_counter, epoch_acc_hist, epoch_margin_hist, batches>>
    /\ TrainFrame

\* the end of the epoch: its accuracy and mean margin are pushed
EpochEnd ==
    /\ run.at = "epoch" /\ run.epoch.i > Len(run.epoch.dataset)
    /\ epoch_acc_hist' = Append(epoch_acc_hist,
            IF run.epoch.epoch_total = 0 THEN 0
            ELSE Quot(run.epoch.epoch_correct * AccScale, run.epoch.epoch_total))
    /\ epoch_margin_hist' = Append(epoch_margin_hist,
            IF run.epoch.epoch_total = 0 THEN 0
            ELSE Quot(run.epoch.epoch_margin_sum, run.epoch.epoch_total))
    /\ run' = Idle
    /\ lastOp' = "epochEnd"
    /\ UNCHANGED <<net, prev, call, neuron_rate, reward_baseline,
                   prune_counter, batches>>
    /\ TrainFrame

TrainNext ==
    \/ \E batch \in Batches : BatchBegin(batch)
    \/ BatchEpisode
    \/ BatchEnd
    \/ \E dataset \in Datasets, epochs \in {0, 1} : EpochBegin(dataset, epochs)
    \/ EpochBatch
    \/ EpochEnd

SpecTrain == TrainInit /\ [][TrainNext]_vars

\* the episode just run chose the target with margin at least margin_delta
Satisfied ==
    /\ call.m.winner_id = call.target_id
    /\ call.m.margin >= cfg.margin_delta

\* every edge of the network has the delta lr * r * e, e its eligibility at
\* the end of the episode
DeltaIs(r) ==
    \A k \in Edges(net) :
        /\ k \in DOMAIN call.delta
        /\ call.delta[k] = cfg.lr * r * call.elig[k]

\* C12 as stated: in binary reward mode the reward of an episode is
\* reward_pos when the winner is the target with margin >= margin_delta and
\* reward_neg otherwise, and with no advantage baseline and no update gate
\* the delta of every edge on such an episode is lr * reward_pos * e.
C12_BinaryRewardDelta ==
    (call.op = "episode" /\ cfg.reward_mode = "binary") =>
        /\ call.reward_raw = IF Satisfied THEN cfg.reward_pos ELSE cfg.reward_neg
        /\ (/\ Satisfied
            /\ ~cfg.use_advantage_baseline
            /\ cfg.update_gating = "none") => DeltaIs(cfg.reward_pos)

\* C12, amended: the delta is lr * reward_pos * e when, besides, the
\* no_update_if_satisfied shaping is off; when it is on, the delta of a
\* satisfied episode is 0 for every edge.
C12_BinaryRewardDeltaUnlessSuppressed ==
    (call.op = "episode" /\ cfg.reward_mode = "binary") =>
        /\ call.reward_raw = IF Satisfied THEN cfg.reward_pos ELSE cfg.reward_neg
        /\ (/\ Satisfied
            /\ ~cfg.use_advantage_baseline
            /\ cfg.update_gating = "none") =>
                IF cfg.no_update_if_satisfied THEN DeltaIs(0)
                ELSE DeltaIs(cfg.reward_pos)
        /\ (/\ ~Satisfied
            /\ ~cfg.use_advantage_baseline
            /\ cfg.update_gating = "none") => DeltaIs(cfg.reward_neg)

\* a satisfied episode, without baseline, gate or suppression, that gave
\* some edge a delta other than 0
C12_Witness ==
    /\ call.op = "episode" /\ cfg.reward_mode = "binary"
    /\ Satisfied
    /\ ~cfg.use_advantage_baseline /\ cfg.update_gating = "none"
    /\ ~cfg.no_update_if_satisfied
    /\ \E k \in Edges(net) : call.delta[k] # 0

\* the weight of edge k in network g
WeightOf(g, k) == g[k[1]].connections[k[2]]

\* one factor (1 - weight_decay) on the weight grid
Decayed(w) == w - Quot(cfg.weight_decay * w, DecayScale)

\* a batch of the given kind has just been trained with both rewards 0
ZeroRewardBatch ==
    /\ lastOp = "trainBatch"
    /\ cfg.reward_mode = "binary"
    /\ cfg.reward_pos = 0 /\ cfg.reward_neg = 0

\* the batch added no edge and gave the weight of every edge it kept the
\* decay factor (an edge that stays below prune_epsilon is pruned)
OnlyDecay ==
    /\ Edges(net) \subseteq Edges(prev)
    /\ \A k \in Edges(net) : WeightOf(net, k) = Decayed(WeightOf(prev, k))

SameTrainables ==
    \A n \in DOMAIN net :
        /\ net'[n].connections = net[n].connections
        /\ net'[n].threshold = net[n].threshold
        /\ net'[n].balancer = net[n].balancer

\* C15: training invoked with zero episodes (trainEpoch with an empty
\* dataset, trainBatch with an empty batch) returns without side effects:
\* weights, edge set, thresholds, leaks, checkpoint ladder and metric history
\* are all unchanged.
C15_ZeroEpisodesNoEffect ==
    [][(\/ \E epochs \in {0, 1} : EpochBegin(<<>>, epochs)
        \/ /\ run.at = "batch" /\ run.batch = <<>> /\ run.epoch = NoEpoch
           /\ BatchEnd)
       => /\ SameTrainables
          /\ UNCHANGED <<ckpt_l0, ckpt_l1, ckpt_l2, epoch_acc_hist,
                         epoch_margin_hist>>]_vars

----------------------------------------------------------------------------
(* EvolutionEngine::run: population, generations and the lineage *)

MaxGenerations == 2     \* largest evo_cfg.generations

Max(a, b) == IF a > b THEN a ELSE b

\* const int P = std::max(1, evo_cfg.population)
PopSize == Max(1, evo_cfg.population)
\* the generation loop runs std::max(1, evo_cfg.generations) times
Generations == Max(1, evo_cfg.generations)
\* int E = std::min(std::max(0, evo_cfg.elite), P)
Elites == Min(Max(0, evo_cfg.elite), PopSize)
\* int R = std::min(std::max(E, evo_cfg.parents_pool), P)
ParentsPool == Min(Max(Elites, evo_cfg.parents_pool), PopSize)

\* the lineage seed node of the first loop of run()
seedNode(id) == [id |-> id, parent_id |-> -1, gen |-> 0]

\* a child node that takes its parent's generation
childNodeSameGen(id, parent, g) ==
    [id |-> id, parent_id |-> parent.node_id, gen |-> g]

\* the node of an elite copy or of a mutated child made in generation g:
\* node.parent_id = parent.node_id; node.gen = gen + 1
childNode(id, parent, g) ==
    [id |-> id, parent_id |-> parent.node_id, gen |-> g + 1]

\* the permutations of 1..n
Perms(n) == {f \in [1..n -> 1..n] : \A i, j \in 1..n : i # j => f[i] # f[j]}

\* an engine constructed with a configuration; the pool a child's parent is
\* drawn from is not empty
EvoInit ==
    /\ net = DefaultNet /\ SimIdle /\ PairIdle /\ CkptIdle /\ EdgeIdle
    /\ rates = <<>> /\ call = NoCall /\ TrainIdle
    /\ \E p \in {1, 2, 3}, g \in 1..MaxGenerations, e \in {0, 1, 4},
          r \in {0, 1, 2} :
          /\ Max(e, r) >= 1
          /\ evo_cfg = [population |-> p, generations |-> g, elite |-> e,
                        parents_pool |-> r]
    /\ pop = <<>> /\ lineage = <<>> /\ next_node_id = 0 /\ gen = 0
    /\ evo_pc = "start"

EvoFrame ==
    UNCHANGED <<simVars, pairVars, ckptVars, edgeVars, rates, call, trainVars,
                evo_cfg>>

\* the first loop of run(): P individuals, each with a seed node
EvoSeed ==
    /\ evo_pc = "start"
    /\ pop' = [i \in 1..PopSize |->
                    [node_id |-> next_node_id + i - 1, fitness |-> 0]]
    /\ lineage' = lineage \o [i \in 1..PopSize |-> seedNode(next_node_id + i - 1)]
    /\ next_node_id' = next_node_id + PopSize
    /\ gen' = 0
    /\ evo_pc' = "evaluate"
    /\ EvoFrame

\* the evaluation loop of generation gen and the sort by fitness: every
\* individual gets a fitness f[i], its lineage node gets gen, and the
\* population is put in an order of descending fitness
EvoEvaluate(f, order) ==
    /\ evo_pc = "evaluate"
    /\ \A i \in 1..(PopSize - 1) : f[order[i]] >= f[order[i + 1]]
    /\ lineage' = [k \in 1..Len(lineage) |->
                    IF \E i \in 1..PopSize : pop[i].node_id = lineage[k].id
                    THEN [lineage[k] EXCEPT !.gen = gen]
                    ELSE lineage[k]]
    /\ pop' = [i \in 1..PopSize |->
                    [node_id |-> pop[order[i]].node_id, fitness |-> f[order[i]]]]
    /\ evo_pc' = "reproduce"
    /\ UNCHANGED <<next_node_id, gen>>
    /\ EvoFrame

\* the next generation: the first E individuals are copied as elites, the
\* other P - E are children of parents drawn from the first R; every one
\* gets a new lineage node. The loop then goes on to generation gen + 1.
EvoReproduce(parents) ==
    /\ evo_pc = "reproduce"
    /\ LET parentOf(i) == IF i <= Elites THEN pop[i] ELSE pop[parents[i - Elites]]
           nodes == [i \in 1..PopSize |->
                        childNode(next_node_id + i - 1, parentOf(i), gen)]
       IN /\ lineage' = lineage \o nodes
          /\ pop' = [i \in 1..PopSize |->
                        [node_id |-> nodes[i].id, fitness |-> 0]]
    /\ next_node_id' = next_node_id + PopSize
    /\ gen' = gen + 1
    /\ evo_pc' = IF gen + 1 < Generations THEN "evaluate" ELSE "done"
    /\ EvoFrame

EvoNext ==
    \/ EvoSeed
    \/ \E f \in [1..PopSize -> {0, 1}], order \in Perms(PopSize) :
          EvoEvaluate(f, order)
    \/ \E parents \in [1..(PopSize - Elites) -> 1..ParentsPool] :
          EvoReproduce(parents)

SpecEvo == EvoInit /\ [][EvoNext]_vars

\* C14: a run with population P and G generations leaves a lineage of
\* exactly P generation-0 roots (no parent) followed by P*G further nodes,
\* and at every moment the parent id of a non-root node is the id of a node
\* earlier in the list with a strictly smaller generation number.
C14_Lineage ==
    /\ \A i \in 1..Len(lineage) :
        lineage[i].parent_id # -1 =>
            \E j \in 1..(i - 1) :
                /\ lineage[j].id = lineage[i].parent_id
                /\ lineage[j].gen < lineage[i].gen
    /\ evo_pc = "done" =>
        /\ Len(lineage) = evo_cfg.population
                          + evo_cfg.population * evo_cfg.generations
        /\ \A i \in 1..Len(lineage) :
            IF i <= evo_cfg.population
            THEN lineage[i].parent_id = -1 /\ lineage[i].gen = 0
            ELSE lineage[i].parent_id # -1

\* a finished run of two generations with three individuals, one elite,
\* and a mutated child of the second generation whose parent was itself a
\* mutated child
C14_Witness ==
    /\ evo_pc = "done"
    /\ evo_cfg.population = 3 /\ evo_cfg.generations = 2 /\ evo_cfg.elite = 1
    /\ \E i, j \in 1..Len(lineage) :
        /\ lineage[i].gen = 2 /\ lineage[j].gen = 1
        /\ lineage[i].parent_id = lineage[j].id
        /\ lineage[j].id # 3 /\ lineage[i].id # 6

----------------------------------------------------------------------------
(* Trainer::trainEpoch: the end of an epoch, capture and automatic revert *)

MaxEpochs == 3      \* most epochs in a run

\* the revert test with a strict comparison
revertDueStrict(c, acc_hist, margin_hist) ==
    LET w == Max(1, c.revert_window)
        hist == IF c.revert_metric = "accuracy" THEN acc_hist ELSE margin_hist
    IN /\ c.revert_enable
       /\ c.revert_metric \in {"accuracy", "margin"}
       /\ Len(hist) > w
       /\ hist[Len(hist) - w] - hist[Len(hist)] > c.revert_drop

\* the test of trainEpoch that leads to the call of revertOneCheckpoint:
\* w = max(1, revert_window), the history is longer than w, and
\* hist[size - 1 - w] - hist.back() >= revert_drop
revertDue(c, acc_hist, margin_hist) ==
    LET w == Max(1, c.revert_window)
        hist == IF c.revert_metric = "accuracy" THEN acc_hist ELSE margin_hist
    IN /\ c.revert_enable
       /\ c.revert_metric \in {"accuracy", "margin"}
       /\ Len(hist) > w
       /\ hist[Len(hist) - w] - hist[Len(hist)] >= c.revert_drop

\* the revert settings: revert_drop is two units of the metric grids
RevertConfigs ==
    {[DefaultConfig EXCEPT !.ckpt_l0 = c[1], !.ckpt_l1 = c[2], !.ckpt_l2 = c[3]]
        @@ [checkpoints_enable |-> ce, revert_enable |-> TRUE,
            revert_metric |-> metric, revert_window |-> w, revert_drop |-> 2] :
        c \in {<<1, 1, 0>>, <<0, 1, 1>>, <<0, 0, 0>>}, ce \in BOOLEAN,
        metric \in {"accuracy", "margin"}, w \in {0, 1, 2}}
    \cup
    {DefaultConfig
        @@ [checkpoints_enable |-> TRUE, revert_enable |-> FALSE,
            revert_metric |-> "accuracy", revert_window |-> 1,
            revert_drop |-> 2]}

\* the metrics an epoch may end with: <<accuracy, mean margin>>
EpochMetrics == {<<4, 2>>, <<2, 2>>, <<2, 0>>, <<0, 0>>}

RevertInit ==
    /\ net = DefaultNet
    /\ cfg \in RevertConfigs
    /\ ckpt_l0 = <<>> /\ ckpt_l1 = <<>> /\ ckpt_l2 = <<>>
    /\ captures = 0 /\ reverts = 0 /\ lastRet = FALSE
    /\ captured = NoSnapshot /\ stamps = NoStamps
    /\ SimIdle /\ AuxIdle /\ PairIdle /\ EdgeIdle

\* the batches of an epoch moving a weight
RTrain(w) ==
    /\ Len(epoch_acc_hist) < MaxEpochs
    /\ Change(setTransmitter(net, S0, H0, w))
    /\ UNCHANGED <<captures, reverts>>

\* the end of the epoch loop's body: the epoch's accuracy and mean margin
\* are pushed, the ladder captures when checkpoints are enabled, and on a
\* metric drop revertOneCheckpoint is called once. The number of the epoch
\* stamps the snapshot it captures.
EpochEndRevert(epoch_acc, epoch_margin) ==
    /\ Len(epoch_acc_hist) < MaxEpochs
    /\ epoch_acc_hist' = Append(epoch_acc_hist, epoch_acc)
    /\ epoch_margin_hist' = Append(epoch_margin_hist, epoch_margin)
    /\ LET e == Len(epoch_acc_hist) + 1
           s == captureSnapshot(net)
           lad == IF cfg.checkpoints_enable
                  THEN onEpochEndCapture(cfg, ckpt_l0, ckpt_l1, ckpt_l2, s)
                  ELSE [l0 |-> ckpt_l0, l1 |-> ckpt_l1, l2 |-> ckpt_l2]
           st == IF cfg.checkpoints_enable
                 THEN onEpochEndCapture(cfg, stamps.l0, stamps.l1, stamps.l2, e)
                 ELSE stamps
           due == revertDue(cfg, epoch_acc_hist', epoch_margin_hist')
           r == IF due THEN revertOneCheckpoint(net, lad.l0, lad.l1, lad.l2)
                ELSE [ret |-> FALSE, net |-> net,
                      l0 |-> lad.l0, l1 |-> lad.l1, l2 |-> lad.l2]
           popped == IF Len(r.l0) < Len(lad.l0) THEN st.l0[Len(st.l0)]
                     ELSE IF Len(r.l1) < Len(lad.l1) THEN st.l1[Len(st.l1)]
                     ELSE IF Len(r.l2) < Len(lad.l2) THEN st.l2[Len(st.l2)]
                     ELSE 0
       IN /\ net' = r.net
          /\ ckpt_l0' = r.l0 /\ ckpt_l1' = r.l1 /\ ckpt_l2' = r.l2
          /\ stamps' = [l0 |-> SubSeq(st.l0, 1, Len(r.l0)),
                        l1 |-> SubSeq(st.l1, 1, Len(r.l1)),
                        l2 |-> SubSeq(st.l2, 1, Len(r.l2))]
          /\ lastRet' = r.ret
          /\ reverts' = IF r.ret THEN reverts + 1 ELSE reverts
          /\ captures' = IF cfg.checkpoints_enable THEN captures + 1 ELSE captures
          /\ captured' = IF cfg.checkpoints_enable THEN s ELSE captured
          /\ call' = [op |-> "epochEnd", epoch |-> e,
                      held |-> Len(lad.l0) + Len(lad.l1) + Len(lad.l2),
                      reverts |-> reverts' - reverts, restored |-> popped]
    /\ prev' = net
    /\ lastOp' = "epochEnd"
    /\ UNCHANGED <<lastInj, pendInj, steps, pairVars, edgeVars, cfg, rates,
                   neuron_rate, reward_baseline, prune_counter, batches, run,
                   streak, evoVars>>

RevertNext ==
    \/ \E w \in {2, 3} : RTrain(w)
    \/ \E m \in EpochMetrics : EpochEndRevert(m[1], m[2])

SpecRevert == RevertInit /\ [][RevertNext]_vars

\* the watched metric of the epoch that ended k epochs before the last one
Watched(k) ==
    LET hist == IF cfg.revert_metric = "accuracy" THEN epoch_acc_hist
                ELSE epoch_margin_hist
    IN hist[Len(hist) - k]

\* C18 as stated: at the end of an epoch with revert enabled exactly one
\* revert is performed if the watched metric revert_window epochs earlier
\* minus its value for the epoch just finished is at least revert_drop, and
\* none otherwise (none, too, with fewer than revert_window + 1 epochs of
\* history); never more than one.
C18_RevertOnDrop ==
    (call.op = "epochEnd" /\ cfg.revert_enable) =>
        call.reverts =
            IF /\ Len(epoch_acc_hist) >= cfg.revert_window + 1
               /\ Watched(cfg.revert_window) - Watched(0) >= cfg.revert_drop
            THEN 1 ELSE 0

\* C18, amended: the window is max(1, revert_window), and the one call of
\* revertOneCheckpoint performs a revert only if the ladder holds a
\* snapshot after the epoch's capture.
C18_RevertOnDropIfHeld ==
    (call.op = "epochEnd" /\ cfg.revert_enable) =>
        LET w == Max(1, cfg.revert_window)
        IN call.reverts =
            IF /\ Len(epoch_acc_hist) >= w + 1
               /\ Watched(w) - Watched(0) >= cfg.revert_drop
               /\ call.held > 0
            THEN 1 ELSE 0

\* a revert at the end of the third epoch for a drop of exactly revert_drop
\* over a window of two epochs, the epoch in between having no drop
C18_Witness ==
    /\ call.op = "epochEnd" /\ cfg.revert_enable
    /\ cfg.revert_window = 2 /\ Len(epoch_acc_hist) = 3
    /\ Watched(2) - Watched(0) = cfg.revert_drop
    /\ Watched(1) - Watched(0) < cfg.revert_drop
    /\ call.reverts = 1

\* C19: when an automatic revert fires at the end of epoch e with
\* checkpointing enabled, the snapshot restored was captured at the end of
\* an epoch earlier than e.
C19_RevertRestoresEarlierEpoch ==
    (call.op = "epochEnd" /\ cfg.checkpoints_enable /\ call.reverts = 1) =>
        call.restored < call.epoch

----------------------------------------------------------------------------
(* The grow step on networks of any size, the empty network included *)

\* Trainer::collectAllIDs on network g: the ids forEachNeuron visits
allIdsOf(g) == SelectSeq(<<S0, H0, O0, O1>>, LAMBDA id : id \in DOMAIN g)

\* the tests of the grow loop on network g: policy, self pair, both lookups
\* through Glia::getNeuronById, and the lookup in the source's connections
GrowAcceptsIn(g, c, from_id, to_id) ==
    /\ edgeAllowed(c.topology, from_id, to_id)
    /\ from_id # to_id
    /\ from_id \in DOMAIN g /\ to_id \in DOMAIN g
    /\ to_id \notin DOMAIN g[from_id].connections

\* the networks a trainer may be constructed on: Glia() with no neurons,
\* one sensory neuron alone, and the chain S0 -> H0 -> O0
GrowNets ==
    { <<>>,
      [n \in {S0} |-> NewNeuron(0, LeakScale, 4, 1)],
      DefaultNet }

GrowInit ==
    /\ net \in GrowNets
    /\ \E g \in 1..MaxGrow, pol \in Policies :
        cfg = [DefaultConfig EXCEPT !.grow_edges = g, !.topology = pol]
    /\ prev = net /\ lastInj = ZeroInj /\ pendInj = ZeroInj
    /\ lastOp = "init" /\ steps = 0
    /\ AuxIdle /\ PairIdle /\ EdgeIdle
    /\ ckpt_l0 = <<>> /\ ckpt_l1 = <<>> /\ ckpt_l2 = <<>>
    /\ captures = 0 /\ reverts = 0 /\ lastRet = FALSE
    /\ captured = NoSnapshot /\ stamps = NoStamps

\* the batch reaches `if (cfg.grow_edges > 0)`: grown = attempts = 0
GBegin(trainer) ==
    /\ pc = "idle"
    /\ cfg.grow_edges > 0
    /\ pc' = trainer
    /\ grown' = 0 /\ attempts' = 0
    /\ lastOp' = "other"
    /\ UNCHANGED net /\ EdgeFrame

\* one iteration of the loop on a network with neurons: dist_idx draws two
\* indices of all_ids, dist_sign the sign of the new weight
GAttempt(i, j, sign) ==
    /\ pc \in {"Trainer", "RateGDTrainer"}
    /\ grown < cfg.grow_edges /\ attempts < cfg.grow_edges * GrowTrialFactor
    /\ i \in 1..Len(allIdsOf(net)) /\ j \in 1..Len(allIdsOf(net))
    /\ LET from_id == allIdsOf(net)[i]
           to_id   == allIdsOf(net)[j]
       IN IF GrowAcceptsIn(net, cfg, from_id, to_id)
          THEN /\ net' = NeuronAddConnection(net, from_id,
                                             cfg.init_weight * sign, to_id)
               /\ grown' = grown + 1
          ELSE UNCHANGED <<net, grown>>
    /\ attempts' = attempts + 1
    /\ lastOp' = "grow"
    /\ UNCHANGED pc /\ EdgeFrame

\* one iteration on a network with no neurons: all_ids is empty, dist_idx
\* is over [0, 0] and `all_ids[0]` reads past the end of an empty vector.
\* The read either faults, or yields bytes that are no neuron's id, and
\* then the pair is rejected by the policy or by the failed lookups.
GAttemptNoIds ==
    /\ pc \in {"Trainer", "RateGDTrainer"}
    /\ grown < cfg.grow_edges /\ attempts < cfg.grow_edges * GrowTrialFactor
    /\ allIdsOf(net) = <<>>
    /\ attempts' = attempts + 1
    /\ pc' \in {"crashed", pc}
    /\ lastOp' = "grow"
    /\ UNCHANGED <<net, grown>> /\ EdgeFrame

\* the loop condition fails: the batch goes on after the grow step
GEnd ==
    /\ pc \in {"Trainer", "RateGDTrainer"}
    /\ ~(grown < cfg.grow_edges /\ attempts < cfg.grow_edges * GrowTrialFactor)
    /\ pc' = "idle"
    /\ lastOp' = "growEnd"
    /\ UNCHANGED <<net, grown, attempts>> /\ EdgeFrame

GrowNext ==
    \/ \E trainer \in {"Trainer", "RateGDTrainer"} : GBegin(trainer)
    \/ \E i, j \in 1..Len(Order), sign \in {-1, 1} : GAttempt(i, j, sign)
    \/ GAttemptNoIds
    \/ GEnd

SpecGrow == GrowInit /\ [][GrowNext]_vars

\* C21: the grow step of a batch ends without error on every network, one
\* with no neurons included, and under every policy: it never faults, it
\* samples at most 20 * grow_edges pairs and adds at most grow_edges edges.
C21_GrowTerminates ==
    /\ pc # "crashed"
    /\ attempts <= cfg.grow_edges * GrowTrialFactor
    /\ grown <= cfg.grow_edges

----------------------------------------------------------------------------
(* Trainer::trainBatch with its structural steps: prune, then grow *)

MaxPruneBatches == 3    \* most trainBatch calls in a run

\* the configurations: plain pruning with patience 1 or 2; growing with an
\* init_weight below or above prune_epsilon; a weight clip with growing or
\* with the usage boost. Edges into outputs are allowed, so that grow has
\* pairs to accept on a network of one sensory neuron and two outputs.
PruneConfig ==
    [TrainConfig EXCEPT !.weight_decay = 0,
                        !.topology.allow_feedback_to_outputs = TRUE]
PruneConfigs ==
    { [PruneConfig EXCEPT !.prune_patience = p] : p \in {1, 2} }
    \cup
    { [PruneConfig EXCEPT !.grow_edges = 1, !.init_weight = w] : w \in {1, 3} }
    \cup
    { [PruneConfig EXCEPT !.grow_edges = 1, !.init_weight = 3, !.weight_clip = 2],
      [PruneConfig EXCEPT !.usage_boost_gain = 1, !.weight_clip = 8,
                          !.no_update_if_satisfied = FALSE] }

PruneBatches == { <<>> } \cup {<<e>> : e \in Episodes}

PruneInit ==
    /\ net = BuildTrainNet((S0 :> 1) @@ (O0 :> 1) @@ (O1 :> 5),
                           {<<S0, O0, 8>>, <<O0, O1, 1>>})
    /\ net2 = DefaultNet /\ probe = NoProbe /\ synced = FALSE
    /\ prev = net /\ lastInj = ZeroInj /\ pendInj = ZeroInj
    /\ lastOp = "init" /\ steps = 0
    /\ cfg \in PruneConfigs
    /\ ckpt_l0 = <<>> /\ ckpt_l1 = <<>> /\ ckpt_l2 = <<>>
    /\ captures = 0 /\ reverts = 0 /\ lastRet = FALSE
    /\ captured = NoSnapshot /\ stamps = NoStamps
    /\ EdgeIdle
    /\ rates = <<>> /\ call = NoCall
    /\ TrainIdle /\ EvoIdle

PruneFrame ==
    UNCHANGED <<lastInj, pendInj, steps, pairVars, ckptVars, pc, rates,
                epoch_acc_hist, epoch_margin_hist, evoVars>>

\* a call of Trainer::trainBatch(batch, cfg) begins
PBegin(batch) ==
    /\ run = Idle
    /\ batches < MaxPruneBatches
    /\ run' = EnterBatch(batch, NoEpoch)
    /\ lastOp' = "other"
    /\ UNCHANGED <<net, prev, call, neuron_rate, reward_baseline,
                   prune_counter, batches, streak, grown, attempts>>
    /\ PruneFrame

\* the grow loop as a whole. dist_idx and dist_sign draw at most
\* 20 * grow_edges pairs; a pair the tests reject changes nothing but
\* `attempts`, so what the loop does to the network is given by the draws
\* in `draws`, at most grow_edges of them, each added if it passes the tests
RECURSIVE GrowLoop(_, _, _)
GrowLoop(g, c, draws) ==
    IF draws = <<>> THEN g
    ELSE LET from_id == (TrainSensory \o TrainNeurons)[Head(draws)[1]]
             to_id   == (TrainSensory \o TrainNeurons)[Head(draws)[2]]
         IN GrowLoop(IF GrowAcceptsIn(g, c, from_id, to_id)
                     THEN NeuronAddConnection(g, from_id,
                                c.init_weight * Head(draws)[3], to_id)
                     ELSE g,
                     c, Tail(draws))

GrowDraws ==
    {<<i, j, sign>> : i \in 1..Len(TrainSensory \o TrainNeurons),
                      j \in 1..Len(TrainSensory \o TrainNeurons),
                      sign \in {-1, 1}}

\* trainBatch after its loop over the batch: the deltas and the usage boost
\* are applied; every edge is tested against prune_epsilon and counted, and
\* the edges whose count reached prune_patience are removed; the grow loop
\* runs; intrinsic plasticity ends the call (the inactive-neuron pruning is
\* off, inactive_rate_threshold = 0). prev keeps the network the call was
\* made on. An edge that grow creates has been below prune_epsilon at the
\* end of no batch yet.
PBatchEnd(draws) ==
    /\ run.at = "batch" /\ run.todo = <<>>
    /\ Len(draws) <= cfg.grow_edges
    /\ \E g2 \in {usageBoost(applyDeltas(net, run.sum_delta, Len(run.batch), cfg),
                             run, Len(run.batch), cfg)} :
       \E pc1 \in {pruneCounters(g2, prune_counter, cfg)} :
       \E g3 \in {pruneEdges(g2, pc1, cfg)} :
       \E g4 \in {GrowLoop(g3, cfg, draws)} :
       \E nr1 \in {[n \in DOMAIN g4 |-> getRate(neuron_rate, n)] @@ neuron_rate} :
       \E tested \in {[k \in Edges(g2) |->
                        IF Abs(WeightOf(g2, k)) < cfg.prune_epsilon
                        THEN (IF k \in DOMAIN streak THEN streak[k] ELSE 0) + 1
                        ELSE 0]} :
          /\ net' = intrinsicPlasticity(g4, nr1, cfg)
          /\ neuron_rate' = nr1
          /\ prune_counter' = pc1
          /\ streak' = [k \in Edges(g4) |->
                            IF k \in Edges(g3) THEN tested[k] ELSE 0]
          /\ call' = [op |-> "trainBatch", size |-> Len(run.batch),
                      tested |-> tested, pruned |-> Edges(g3),
                      boosted |-> g2]
    /\ prev' = run.before
    /\ run' = Idle
    /\ lastOp' = "trainBatch"
    /\ batches' = batches + 1
    /\ UNCHANGED <<reward_baseline, grown, attempts>>
    /\ PruneFrame

PruneNext ==
    \/ \E batch \in PruneBatches : PBegin(batch)
    \/ BatchEpisode
    \/ \E draws \in SeqsUpTo(GrowDraws, MaxGrow) : PBatchEnd(draws)

SpecPrune == PruneInit /\ [][PruneNext]_vars

C23_NoEarlyPrune ==
    lastOp = "trainBatch" =>
        \A k \in DOMAIN call.tested :
            k \notin call.pruned => call.tested[k] >= cfg.prune_patience

\* C29: with weight_clip = c > 0 every edge weight of the network lies in
\* [-c, c] after every Hebbian trainBatch, the edges the usage boost
\* adjusted and the edges the grow step created included.
C29_WeightsWithinClip ==
    (lastOp = "trainBatch" /\ cfg.weight_clip > 0) =>
        \A k \in Edges(net) : Abs(WeightOf(net, k)) <= cfg.weight_clip

----------------------------------------------------------------------------
(* EvolutionEngine: genomes (captureNet, restoreNet) and applyMutation, *)
(* next to the trainer's batches                                        *)

\* EvolutionEngine::captureNet: a record per neuron in forEachNeuron order,
\* and a record per edge
captureNet(g) ==
    [neurons |-> [i \in 1..Len(allIdsOf(g)) |->
                    [id |-> allIdsOf(g)[i], thr |-> g[allIdsOf(g)[i]].threshold,
                     leak |-> g[allIdsOf(g)[i]].balancer]],
     edges |-> {[from |-> k[1], to |-> k[2], w |-> g[k[1]].connections[k[2]]] :
                    k \in Edges(g)}]

\* restoreNet, first loop: every neuron drops the outgoing edges that the
\* snapshot does not list
NetRemoveUnlisted(g, s) ==
    [n \in DOMAIN g |->
        [g[n] EXCEPT !.connections =
            [t \in {u \in DOMAIN g[n].connections :
                        \E e \in s.edges : e.from = n /\ e.to = u}
                |-> g[n].connections[t]]]]

\* the second loop without the test if (!from || !to) continue
RECURSIVE NetRestoreEdgesNoSkip(_, _)
NetRestoreEdgesNoSkip(g, todo) ==
    IF todo = {} THEN g
    ELSE LET e == CHOOSE x \in todo : TRUE
         IN NetRestoreEdgesNoSkip(
                IF e.from \notin DOMAIN g THEN g
                ELSE IF e.to \notin DOMAIN g[e.from].connections
                     THEN NeuronAddConnection(g, e.from, e.w, e.to)
                     ELSE setTransmitter(g, e.from, e.to, e.w),
                todo \ {e})

\* restoreNet, second loop: an edge record is skipped when getNeuronById
\* finds no neuron for one of its ends, and otherwise added or re-weighted
RECURSIVE NetRestoreEdges(_, _)
NetRestoreEdges(g, todo) ==
    IF todo = {} THEN g
    ELSE LET e == CHOOSE x \in todo : TRUE
         IN NetRestoreEdges(
                IF e.from \notin DOMAIN g \/ e.to \notin DOMAIN g THEN g
                ELSE IF e.to \notin DOMAIN g[e.from].connections
                     THEN NeuronAddConnection(g, e.from, e.w, e.to)
                     ELSE setTransmitter(g, e.from, e.to, e.w),
                todo \ {e})

\* restoreNet, third loop: threshold and leak of every listed neuron that
\* the network has
RECURSIVE NetRestoreParams(_, _)
NetRestoreParams(g, recs) ==
    IF recs = <<>> THEN g
    ELSE NetRestoreParams(
            IF Head(recs).id \notin DOMAIN g THEN g
            ELSE setLeak(setThreshold(g, Head(recs).id, Head(recs).thr),
                         Head(recs).id, Head(recs).leak),
            Tail(recs))

\* EvolutionEngine::restoreNet
restoreNet(g, s) ==
    NetRestoreParams(NetRestoreEdges(NetRemoveUnlisted(g, s), s.edges),
                     s.neurons)

\* EvolutionEngine::applyMutation: nw, nthr and nleak are the draws of the
\* three normal distributions, per edge and per neuron; each part runs only
\* for a positive sigma, and the leak is clamped to [0, 1]
applyMutation(g, ec, nw, nthr, nleak) ==
    [n \in DOMAIN g |->
        [g[n] EXCEPT
            !.connections = [t \in DOMAIN @ |->
                IF ec.sigma_w > 0 THEN @[t] + nw[<<n, t>>] ELSE @[t]],
            !.threshold = IF ec.sigma_thr > 0 THEN @ + nthr[n] ELSE @,
            !.balancer = IF ec.sigma_leak > 0
                         THEN IF @ + nleak[n] < 0 THEN 0
                              ELSE IF @ + nleak[n] > LeakScale THEN LeakScale
                              ELSE @ + nleak[n]
                         ELSE @]]

\* draws of the leak noise: the same for every neuron, or mixed
LeakNoises ==
    {[n \in TrainIds |-> d] : d \in {-3, 1}}
    \cup {(S0 :> -1) @@ (O0 :> 1) @@ (O1 :> 3)}
ZeroNoise == [n \in TrainIds |-> 0]

\* a trained network with leaks anywhere in [0, 1], a trainer whose
\* intrinsic plasticity moves leaks, and an engine that mutates leaks
LeakInit ==
    /\ \E l \in {[n \in TrainIds |-> x] : x \in 0..LeakScale}
                \cup {(S0 :> 0) @@ (O0 :> 1) @@ (O1 :> LeakScale)} :
        net = [n \in TrainIds |->
                [BuildTrainNet((S0 :> 1) @@ (O0 :> 1) @@ (O1 :> 5),
                               {<<S0, O0, 8>>, <<S0, O1, 4>>})[n]
                    EXCEPT !.balancer = l[n]]]
    /\ net2 = DefaultNet /\ probe = NoProbe /\ synced = FALSE
    /\ prev = net /\ lastInj = ZeroInj /\ pendInj = ZeroInj
    /\ lastOp = "init" /\ steps = 0
    /\ \E eta \in {-1, 1} :
        cfg = [TrainConfig EXCEPT !.eta_leak = eta, !.r_target = 2,
                                  !.weight_decay = 0]
    /\ ckpt_l0 = <<>> /\ ckpt_l1 = <<>> /\ ckpt_l2 = <<>>
    /\ captures = 0 /\ reverts = 0 /\ lastRet = FALSE
    /\ captured = NoSnapshot /\ stamps = NoStamps
    /\ EdgeIdle
    /\ rates = <<>> /\ call = NoCall
    /\ TrainIdle
    /\ evo_cfg = [population |-> 8, generations |-> 10, elite |-> 2,
                  parents_pool |-> 4, sigma_w |-> 0, sigma_thr |-> 0,
                  sigma_leak |-> 1]
    /\ pop = <<>> /\ lineage = <<>> /\ next_node_id = 0 /\ gen = 0
    /\ evo_pc = "start"

LeakFrame ==
    UNCHANGED <<lastInj, pendInj, steps, pairVars, cfg, ckpt_l0, ckpt_l1,
                ckpt_l2, captures, reverts, lastRet, stamps, edgeVars, rates,
                call, trainVars, evoVars>>

\* applyMutation(net) between two training calls
LMutate(nleak) ==
    /\ run = Idle
    /\ net' = applyMutation(net, evo_cfg, <<>>, ZeroNoise, nleak)
    /\ prev' = net
    /\ lastOp' = "mutate"
    /\ UNCHANGED captured /\ LeakFrame

\* genome = captureNet(net)
LCaptureNet ==
    /\ run = Idle
    /\ captured' = captureNet(net)
    /\ lastOp' = "capture"
    /\ UNCHANGED <<net, prev>> /\ LeakFrame

\* restoreNet(net, genome) with a genome captured before
LRestoreNet ==
    /\ run = Idle
    /\ captured # NoSnapshot
    /\ net' = restoreNet(net, captured)
    /\ prev' = net
    /\ lastOp' = "restore"
    /\ UNCHANGED captured /\ LeakFrame

LeakNext ==
    \/ \E batch \in {<<>>, <<[seq |-> Drive, target_id |-> O0]>>} :
            BatchBegin(batch)
    \/ BatchEpisode
    \/ BatchEnd
    \/ \E nleak \in LeakNoises : LMutate(nleak)
    \/ LCaptureNet
    \/ LRestoreNet

SpecLeak == LeakInit /\ [][LeakNext]_vars

\* C24: from a network whose leaks all lie in [0, 1], every neuron's leak
\* stays in [0, 1] (0..LeakScale on the grid) whatever training batches with
\* intrinsic plasticity, mutations and snapshot restores follow.
C24_LeakInRange ==
    \A n \in DOMAIN net :
        net[n].balancer >= 0 /\ net[n].balancer <= LeakScale

\* the intrinsic plasticity of a batch pushed a leak past 1 and the clamp
\* held it at 1, on a network that a mutation and a restore had changed
C24_Witness ==
    /\ lastOp = "trainBatch"
    /\ captured # NoSnapshot
    /\ \E n \in DOMAIN net :
            /\ net[n].balancer = LeakScale
            /\ prev[n].balancer
                 + cfg.eta_leak * (cfg.r_target - getRate(neuron_rate, n))
                    > LeakScale

----------------------------------------------------------------------------
(* The update gate of computeEpisodeDelta, abstentions included *)

\* S0 is driven on the first tick only: the outputs fire early and their
\* rates have decayed when the episode ends
Pulse == <<(S0 :> 2)>>
GateBatches ==
    { <<[seq |-> s, target_id |-> t]>> : s \in {Drive, Pulse}, t \in {O0, O1} }

\* every gate, with a detector that abstains below a rate of 1/2 or 3/4
GateInit ==
    /\ net \in TrainNets
    /\ net2 = DefaultNet /\ probe = NoProbe /\ synced = FALSE
    /\ prev = net /\ lastInj = ZeroInj /\ pendInj = ZeroInj
    /\ lastOp = "init" /\ steps = 0
    /\ \E gate \in {"none", "winner_only", "target_only"}, th \in {2, 3},
          sat \in BOOLEAN :
        cfg = [TrainConfig EXCEPT !.update_gating = gate,
                                  !.detector.threshold = th,
                                  !.no_update_if_satisfied = sat,
                                  !.use_advantage_baseline = FALSE]
    /\ ckpt_l0 = <<>> /\ ckpt_l1 = <<>> /\ ckpt_l2 = <<>>
    /\ captures = 0 /\ reverts = 0 /\ lastRet = FALSE
    /\ captured = NoSnapshot /\ stamps = NoStamps
    /\ EdgeIdle
    /\ rates = <<>> /\ call = NoCall
    /\ TrainIdle /\ EvoIdle

GateNext ==
    \/ \E batch \in GateBatches : BatchBegin(batch)
    \/ BatchEpisode
    \/ BatchEnd

SpecGate == GateInit /\ [][GateNext]_vars

\* the edges of the network whose target is id
EdgesInto(id) == {k \in Edges(net) : k[2] = id}

\* C25 as stated: under winner_only an episode gives a delta to no edge
\* but those into the predicted winner, under target_only to no edge but
\* those into the target id, whatever the detector predicted, an abstention
\* included (read for the deltas other than 0).
C25_GateRestrictsDeltas ==
    call.op = "episode" =>
        \A k \in DOMAIN call.delta :
            /\ (cfg.update_gating = "winner_only" /\ k[2] # call.m.winner_id)
                    => call.delta[k] = 0
            /\ (cfg.update_gating = "target_only" /\ k[2] # call.target_id)
                    => call.delta[k] = 0

\* C25, amended: under winner_only the edges that take a delta are those
\* into the predicted winner when the detector names one, and every edge of
\* the network when it abstains (empty winner id); under target_only they
\* are those into the target id; without a gate, every edge.
C25_GateRestrictsUnlessAbstained ==
    call.op = "episode" =>
        DOMAIN call.delta =
            IF cfg.update_gating = "winner_only" /\ call.m.winner_id # NoId
            THEN EdgesInto(call.m.winner_id)
            ELSE IF cfg.update_gating = "target_only"
            THEN EdgesInto(call.target_id)
            ELSE Edges(net)

\* under winner_only the detector abstained and an edge took a delta other
\* than 0
C25_Witness ==
    /\ call.op = "episode"
    /\ cfg.update_gating = "winner_only" /\ call.m.winner_id = NoId
    /\ \E k \in DOMAIN call.delta : call.delta[k] # 0

----------------------------------------------------------------------------
(* RateGDTrainer::computeEpisodeGrad: the credit pass from the outputs back *)

\* the neurons of the networks of this section, in forEachNeuron order
CreditOrder == <<S0, H0, O0, O1>>
CreditIds == Range(CreditOrder)

\* the edges a network of this section is drawn from, backward edges and an
\* edge between the outputs included
CreditEdges ==
    { <<S0, H0, 2>>, <<H0, O0, 1>>, <<H0, O1, -1>>, <<S0, O0, 1>>,
      <<O0, H0, 2>>, <<H0, S0, 1>>, <<O0, O1, 1>> }

CreditNet(edges) ==
    [n \in CreditIds |->
        [NewNeuron(0, LeakScale, 4, 1) EXCEPT !.connections = ConnOf(edges, n)]]

\* collectOutputIDs: the ids that begin with 'O', in forEachNeuron order
creditOutputIDs(g) ==
    SelectSeq(CreditOrder, LAMBDA id : id \in DOMAIN g /\ id \in {O0, O1})

\* inbound[u]: the sources of the edges into u, in the order they are found
inbound(g, u) ==
    SelectSeq(CreditOrder,
              LAMBDA f : f \in DOMAIN g /\ u \in DOMAIN g[f].connections)

\* phi_prime: rloc * (1 - rloc) with rloc = neuron_rate clamped to
\* [0.05, 0.95], in units of 1/400 (rloc is counted in twentieths)
phi_prime(nr, nid) ==
    LET r20  == Quot(20 * getRate(nr, nid), RateScale)
        rloc == IF r20 < 1 THEN 1 ELSE IF r20 > 19 THEN 19 ELSE r20
    IN rloc * (20 - rloc)

\* the inner loop of the BFS: every source of an edge into u that has no
\* distance yet gets du + 1 and joins the queue
RECURSIVE BfsVisit(_, _, _)
BfsVisit(st, preds, du) ==
    IF preds = <<>> THEN st
    ELSE BfsVisit(IF Head(preds) \in DOMAIN st.dist THEN st
                  ELSE [st EXCEPT !.dist = (Head(preds) :> du + 1) @@ @,
                                  !.q = Append(@, Head(preds))],
                  Tail(preds), du)

\* the order sorted by decreasing distance
NextInOrderDescending(todo, dist) ==
    {j \in todo : \A i \in todo : dist[j] >= dist[i]}

\* std::sort(order, by dist ascending) and the position of the loop over
\* order: the neurons that may come next, given those still to be processed.
\* The sort is not stable: neurons of equal distance come in any order.
NextInOrder(todo, dist) ==
    {j \in todo : \A i \in todo : dist[j] <= dist[i]}

\* the successors of j whose gradient enters acc: dist(k) < dist(j)
CreditFrom(g, dist, j) ==
    {k \in DOMAIN g[j].connections : k \in DOMAIN dist /\ dist[k] < dist[j]}

\* the softmax gradient (p - onehot(target)) / T of the outputs, in whole
\* units, for either target
OutputGradients == { (O0 :> -3) @@ (O1 :> 3), (O0 :> 2) @@ (O1 :> -2) }

CreditInit ==
    /\ \E edges \in SUBSET CreditEdges : net = CreditNet(edges)
    /\ neuron_rate \in { [n \in CreditIds |-> 2],
                         (S0 :> 4) @@ (H0 :> 1) @@ (O0 :> 0) @@ (O1 :> 3) }
    /\ \E g_rate \in OutputGradients :
        call = [op |-> "computeEpisodeGrad", at |-> "bfs",
                g_rate |-> g_rate, g_out |-> g_rate,
                dist |-> [id \in Range(creditOutputIDs(net)) |-> 0],
                q |-> creditOutputIDs(net), qi |-> 1,
                order |-> <<>>, used |-> <<>>]
    /\ rates = <<>>
    /\ reward_baseline = 0 /\ prune_counter = <<>>
    /\ epoch_acc_hist = <<>> /\ epoch_margin_hist = <<>> /\ batches = 0
    /\ run = Idle /\ streak = <<>>
    /\ SimIdle /\ PairIdle /\ CkptIdle /\ EdgeIdle /\ EvoIdle

CreditFrame ==
    UNCHANGED <<simVars, pairVars, ckptVars, edgeVars, rates, trainVars,
                evoVars>>

\* one pass of while (qi < q.size()): u = q[qi++] and its inbound edges
CBfsStep ==
    /\ call.at = "bfs"
    /\ call.qi <= Len(call.q)
    /\ \E u \in {call.q[call.qi]} :
        call' = BfsVisit([call EXCEPT !.qi = @ + 1], inbound(net, u),
                         call.dist[u])
    /\ CreditFrame

\* the queue has run out: order is built from the neurons of distance > 0
\* and sorted
CSort ==
    /\ call.at = "bfs"
    /\ call.qi > Len(call.q)
    /\ call' = [call EXCEPT !.at = "credit"]
    /\ CreditFrame

\* one pass of for (const auto &pr : order): the neuron j that comes next
CCredit(j) ==
    /\ call.at = "credit"
    /\ j \in NextInOrder({i \in DOMAIN call.dist : call.dist[i] > 0}
                            \ Range(call.order), call.dist)
    /\ \E from \in {CreditFrom(net, call.dist, j)} :
       \E acc \in {SumOver(from,
                    [k \in from |-> net[j].connections[k]
                                        * phi_prime(neuron_rate, k)
                                        * getRate(call.g_rate, k)])} :
        call' = [call EXCEPT
                    !.g_rate = (j :> getRate(@, j) + acc) @@ @,
                    !.order = Append(@, j),
                    !.used = (j :> [k \in from |-> getRate(call.g_rate, k)])
                                @@ @]
    /\ CreditFrame

\* the loop over order is over
CEnd ==
    /\ call.at = "credit"
    /\ {i \in DOMAIN call.dist : call.dist[i] > 0} \subseteq Range(call.order)
    /\ call' = [call EXCEPT !.at = "done"]
    /\ CreditFrame

CreditNext ==
    \/ CBfsStep
    \/ CSort
    \/ \E j \in CreditIds : CCredit(j)
    \/ CEnd

SpecCredit == CreditInit /\ [][CreditNext]_vars

\* C26: the credit loop takes the neurons by increasing BFS distance from
\* the outputs; for a processed neuron j, every successor k of smaller
\* distance is an output or was processed before j, the gradient of k that
\* entered g_j is the one k still has (it was final), and g_j is the sum of
\* w * phi'(k) * g_k over exactly these successors: an edge j -> k with
\* dist(k) >= dist(j), or to a neuron the BFS did not reach, adds nothing.
C26_CreditInReverseOrder ==
    call.op = "computeEpisodeGrad" =>
        /\ \A a, b \in 1..Len(call.order) :
             a < b => call.dist[call.order[a]] <= call.dist[call.order[b]]
        /\ \A a \in 1..Len(call.order) :
            LET j    == call.order[a]
                from == {k \in DOMAIN net[j].connections :
                            k \in DOMAIN call.dist
                            /\ call.dist[k] < call.dist[j]}
            IN /\ \A k \in from :
                    /\ call.dist[k] = 0
                       \/ \E b \in 1..(a - 1) : call.order[b] = k
                    /\ call.used[j][k] = getRate(call.g_rate, k)
               /\ DOMAIN call.used[j] = from
               /\ call.g_rate[j] =
                    SumOver(from, [k \in from |->
                        net[j].connections[k] * phi_prime(neuron_rate, k)
                            * getRate(call.g_rate, k)])

\* the pass is over; a neuron two edges from the outputs took a gradient
\* other than 0 from a processed successor, which itself has an edge back
\* to a neuron farther from the outputs
C26_Witness ==
    /\ call.op = "computeEpisodeGrad" /\ call.at = "done"
    /\ \E j \in Range(call.order) :
        /\ call.dist[j] = 2
        /\ call.g_rate[j] # 0
        /\ \E k \in DOMAIN call.used[j] :
            /\ k \in Range(call.order)
            /\ call.g_rate[k] # 0
            /\ \E i \in DOMAIN net[k].connections :
                 i \in DOMAIN call.dist /\ call.dist[i] >= call.dist[k]

----------------------------------------------------------------------------
(* EvolutionEngine::run with genomes: elites and mutated children *)

\* the draws of the weight noise of one applyMutation, per edge of the base
\* network
WeightNoises == {[k \in Edges(net) |-> d] : d \in {-1, 1}}

\* Glia net; net.configureNetworkFromFile(net_path); restoreNet(net, genome);
\* applyMutation(net); child.genome = captureNet(net)
mutatedClone(base, ec, genome, nw) ==
    captureNet(applyMutation(restoreNet(base, genome), ec, nw, <<>>, <<>>))

\* an engine constructed with any elite and parents_pool, 0 included; net is
\* the network of net_path, the training set is empty, sigma_w is positive
\* and sigma_thr and sigma_leak keep their default 0
BreedInit ==
    /\ net = BuildTrainNet((S0 :> 1) @@ (O0 :> 1) @@ (O1 :> 5),
                           {<<S0, O0, 8>>, <<S0, O1, 4>>})
    /\ SimIdle /\ PairIdle /\ CkptIdle /\ EdgeIdle
    /\ rates = <<>> /\ call = NoCall /\ TrainIdle
    /\ \E p \in {1, 2}, g \in 1..MaxGenerations, e \in {0, 1, 4},
          r \in {0, 1, 2} :
          evo_cfg = [population |-> p, generations |-> g, elite |-> e,
                     parents_pool |-> r, sigma_w |-> 1, sigma_thr |-> 0,
                     sigma_leak |-> 0, lamarckian |-> TRUE]
    /\ pop = <<>> /\ lineage = <<>> /\ next_node_id = 0 /\ gen = 0
    /\ evo_pc = "start"

BreedFrame ==
    UNCHANGED <<simVars, pairVars, ckptVars, edgeVars, rates, trainVars,
                evo_cfg>>

\* the first loop of run(): individual 0 is the base network, the others
\* are mutated; each gets a seed node
BSeed(noise) ==
    /\ evo_pc = "start"
    /\ pop' = [i \in 1..PopSize |->
                [node_id |-> next_node_id + i - 1, fitness |-> 0,
                 genome |-> IF i = 1 THEN captureNet(net)
                            ELSE captureNet(applyMutation(net, evo_cfg,
                                                noise[i], <<>>, <<>>))]]
    /\ lineage' = lineage \o [i \in 1..PopSize |-> seedNode(next_node_id + i - 1)]
    /\ next_node_id' = next_node_id + PopSize
    /\ gen' = 0
    /\ evo_pc' = "evaluate"
    /\ UNCHANGED call /\ BreedFrame

\* the evaluation loop and the sort: the genome is restored into a fresh
\* network, nothing is trained (empty training set), the individual gets a
\* fitness f[i] and, being lamarckian, the capture of its network
BEvaluate(f, order) ==
    /\ evo_pc = "evaluate"
    /\ \A i \in 1..(PopSize - 1) : f[order[i]] >= f[order[i + 1]]
    /\ lineage' = [k \in 1..Len(lineage) |->
                    IF \E i \in 1..PopSize : pop[i].node_id = lineage[k].id
                    THEN [lineage[k] EXCEPT !.gen = gen]
                    ELSE lineage[k]]
    /\ pop' = [i \in 1..PopSize |->
                [node_id |-> pop[order[i]].node_id, fitness |-> f[order[i]],
                 genome |-> IF evo_cfg.lamarckian
                            THEN captureNet(restoreNet(net, pop[order[i]].genome))
                            ELSE pop[order[i]].genome]]
    /\ evo_pc' = "reproduce"
    /\ call' = [op |-> "evaluate"]
    /\ UNCHANGED <<next_node_id, gen>>
    /\ BreedFrame

\* the next generation from the parents drawn and the noise of each child
Breed(parents, noise) ==
    /\ LET parentOf(i) == IF i <= Elites THEN pop[i] ELSE pop[parents[i - Elites]]
           nodes == [i \in 1..PopSize |->
                        childNode(next_node_id + i - 1, parentOf(i), gen)]
       IN /\ lineage' = lineage \o nodes
          /\ pop' = [i \in 1..PopSize |->
                        [node_id |-> nodes[i].id, fitness |-> 0,
                         genome |-> IF i <= Elites THEN pop[i].genome
                                    ELSE mutatedClone(net, evo_cfg,
                                            parentOf(i).genome,
                                            noise[i - Elites])]]
    /\ call' = [op |-> "reproduce", before |-> pop]
    /\ next_node_id' = next_node_id + PopSize
    /\ gen' = gen + 1
    /\ evo_pc' = IF gen + 1 < Generations THEN "evaluate" ELSE "done"
    /\ BreedFrame

\* the next generation when R >= 1: E elites, then children of parents
\* drawn by dist_parent(0, R - 1)
BReproduce(parents, noise) ==
    /\ evo_pc = "reproduce"
    /\ ParentsPool >= 1
    /\ Breed(parents, noise)

\* the next generation when R = 0 (elite <= 0 and parents_pool <= 0):
\* std::uniform_int_distribution<int>(0, -1) is constructed against its
\* precondition a <= b and pop[dist_parent(rng)] is read with whatever
\* index it yields. The run is ended by the out-of-range read, or the index
\* happens to fall on an individual.
BReproduceNoPool(parents, noise) ==
    /\ evo_pc = "reproduce"
    /\ ParentsPool = 0
    /\ \/ /\ evo_pc' = "crashed"
          /\ UNCHANGED <<pop, lineage, next_node_id, gen, call>>
          /\ BreedFrame
       \/ Breed(parents, noise)

BreedNext ==
    \/ \E noise \in [1..PopSize -> WeightNoises] : BSeed(noise)
    \/ \E f \in [1..PopSize -> {0, 1}], order \in Perms(PopSize) :
          BEvaluate(f, order)
    \/ \E parents \in [1..(PopSize - Elites) -> 1..ParentsPool],
          noise \in [1..(PopSize - Elites) -> WeightNoises] :
          BReproduce(parents, noise)
    \/ \E parents \in [1..(PopSize - Elites) -> 1..PopSize],
          noise \in [1..(PopSize - Elites) -> WeightNoises] :
          BReproduceNoPool(parents, noise)

SpecBreed == BreedInit /\ [][BreedNext]_vars

\* the lineage node of an individual
NodeOf(id) == CHOOSE n \in Range(lineage) : n.id = id

\* C27: for every elite and parents_pool, 0 included, the run makes every
\* next population: it has exactly P individuals, the first E carry the
\* genomes of the E fittest unchanged, and each of the other P - E is a
\* mutated clone of one of the R fittest, whose node id is the parent_id of
\* the child's lineage node.
C27_NextPopulation ==
    /\ evo_pc # "crashed"
    /\ call.op = "reproduce" =>
        /\ Len(pop) = evo_cfg.population
        /\ \A i \in 1..Len(pop) :
            IF i <= Elites
            THEN /\ pop[i].genome = call.before[i].genome
                 /\ \A j \in (Elites + 1)..Len(call.before) :
                        call.before[i].fitness >= call.before[j].fitness
            ELSE \E r \in 1..ParentsPool :
                    /\ NodeOf(pop[i].node_id).parent_id = call.before[r].node_id
                    /\ \E nw \in WeightNoises :
                        pop[i].genome = mutatedClone(net, evo_cfg,
                                            call.before[r].genome, nw)

----------------------------------------------------------------------------
(* restoreNet and Glia::addConnection on networks that lack neurons *)

\* a network of the given neurons (threshold 1, no leak) and edges
NetOf(ids, edges) ==
    [n \in ids |->
        [NewNeuron(0, LeakScale, 4, 1) EXCEPT !.connections = ConnOf(edges, n)]]

\* the networks a snapshot is restored into: with and without H0 and O1
RestoreNets ==
    { NetOf({S0, O0}, {<<S0, O0, 1>>}),
      NetOf({S0, H0, O0}, {<<S0, H0, 1>>, <<H0, O0, 1>>}),
      NetOf({S0, O0, O1}, {<<S0, O0, 1>>, <<O0, O1, 1>>}) }

\* genomes captured from networks with all four neurons: some of their
\* edge and neuron records name H0 or O1
RestoreGenomes ==
    { captureNet([NetOf({S0, H0, O0, O1}, edges) EXCEPT
                    ![H0].threshold = 3, ![O0].threshold = thr,
                    ![O1].balancer = 0, ![S0].balancer = 1]) :
        edges \in { {<<S0, H0, 3>>, <<H0, O0, 3>>, <<S0, O0, 3>>},
                    {<<S0, O0, 3>>, <<O0, O1, 3>>, <<O0, S0, 3>>},
                    {<<H0, O1, 3>>},
                    {} },
        thr \in {1, 2} }

\* the ends and weights of the calls of Glia::addConnection
AddedEdges ==
    { <<S0, O0>>, <<S0, H0>>, <<H0, O0>>, <<O0, O1>>, <<O0, S0>> } \X {1, 3}

\* Glia::addConnection on a network g loaded from a file, where every id is
\* held by the map its prefix selects
GliaAddConnectionIn(g, from_id, to_id, weight) ==
    IF from_id \notin DOMAIN g \/ to_id \notin DOMAIN g THEN g
    ELSE NeuronAddConnection(g, from_id, weight, to_id)

RestoreInit ==
    /\ net \in RestoreNets
    /\ prev = net /\ lastInj = ZeroInj /\ pendInj = ZeroInj
    /\ lastOp = "init" /\ steps = 0
    /\ PairIdle /\ CkptIdle /\ EdgeIdle /\ AuxIdle

RestoreFrame ==
    UNCHANGED <<lastInj, pendInj, steps, pairVars, cfg, ckpt_l0, ckpt_l1,
                ckpt_l2, captures, reverts, lastRet, stamps, edgeVars,
                auxVars>>

\* restoreNet(net, s)
RRestoreNet(s) ==
    /\ net' = restoreNet(net, s)
    /\ prev' = net
    /\ captured' = s
    /\ lastOp' = "restoreNet"
    /\ RestoreFrame

\* net.addConnection(from_id, to_id, weight)
RAddConnection(from_id, to_id, weight) ==
    /\ net' = GliaAddConnectionIn(net, from_id, to_id, weight)
    /\ prev' = net
    /\ lastOp' = "addConnection"
    /\ UNCHANGED captured /\ RestoreFrame

RestoreNext ==
    \/ \E s \in RestoreGenomes : RRestoreNet(s)
    \/ \E a \in AddedEdges : RAddConnection(a[1][1], a[1][2], a[2])

SpecRestore == RestoreInit /\ [][RestoreNext]_vars

\* the edge records of a snapshot whose two ends the network has
Restorable(g, s) == {e \in s.edges : e.from \in DOMAIN g /\ e.to \in DOMAIN g}

\* C28: a restore of a snapshot that names absent neurons skips the edge
\* and neuron records that name them and completes the rest (the edges
\* are exactly the records with both ends present, with the recorded
\* weights; recorded neurons that are present take their threshold and
\* leak); and after any restores and edge additions the target of every
\* outgoing edge is a neuron of the network.
C28_RestoreSkipsAbsent ==
    /\ \A n \in DOMAIN net : DOMAIN net[n].connections \subseteq DOMAIN net
    /\ lastOp = "restoreNet" =>
        /\ DOMAIN net = DOMAIN prev
        /\ \A n \in DOMAIN net :
            /\ DOMAIN net[n].connections =
                    {e.to : e \in {x \in Restorable(prev, captured) : x.from = n}}
            /\ \A e \in Restorable(prev, captured) :
                    e.from = n => net[n].connections[e.to] = e.w
            /\ \A i \in 1..Len(captured.neurons) :
                    captured.neurons[i].id = n =>
                        /\ net[n].threshold = captured.neurons[i].thr
                        /\ net[n].balancer = captured.neurons[i].leak

\* a restore that skipped an edge record and a neuron record naming an
\* absent neuron, and added or re-weighted an edge from another record
C28_Witness ==
    /\ lastOp = "restoreNet"
    /\ \E e \in captured.edges : e.to \notin DOMAIN net /\ e.from \in DOMAIN net
    /\ \E i \in 1..Len(captured.neurons) : captured.neurons[i].id \notin DOMAIN net
    /\ \E e \in Restorable(prev, captured) :
        e.to \notin DOMAIN prev[e.from].connections
    /\ \E n \in DOMAIN net : net[n].threshold # prev[n].threshold

----------------------------------------------------------------------------
(* Trainer::evaluate and RateGDTrainer::evaluate, one episode after another *)

\* Trainer::evaluate, the warm-up and decision loops: inject, step, update
\* the detector; t counts the ticks from 1 to U + W
RECURSIVE EvalLoop(_, _, _, _)
EvalLoop(c, st, seq, t) ==
    IF t > c.warmup_ticks + c.decision_window THEN st
    ELSE Bind(TrainStep(injectFromSequence(st.g,
                            IF t <= Len(seq) THEN seq[t] ELSE <<>>)),
              LAMBDA g :
                EvalLoop(c, [g |-> g,
                             det |-> updateDetector(st.det, g, collectOutputIDs)],
                         seq, t + 1))

\* Trainer::evaluate: a new detector, the loops, the metrics; the result
\* carries the network as the episode leaves it
evaluate(g, c, seq) ==
    Bind(EvalLoop(c, [g |-> g, det |-> <<>>], seq, 1), LAMBDA st :
        [g |-> st.g,
         m |-> [winner_id |-> argmax(st.det, collectOutputIDs,
                                     c.detector.default_id, c.detector.threshold),
                margin |-> getMargin(st.det, collectOutputIDs),
                rates |-> [id \in Range(collectOutputIDs) |-> getRate(st.det, id)]]])

\* RateGDTrainer::evaluate, the tick loop: inject, step, neuron_rate of
\* every neuron (rate_alpha = 1/2)
RECURSIVE RateLoop(_, _, _, _)
RateLoop(c, st, seq, t) ==
    IF t > c.warmup_ticks + c.decision_window THEN st
    ELSE Bind(TrainStep(injectFromSequence(st.g,
                            IF t <= Len(seq) THEN seq[t] ELSE <<>>)),
              LAMBDA g :
                RateLoop(c, [g |-> g,
                             nr |-> [n \in DOMAIN g |->
                                (getRate(st.nr, n)
                                    + (IF g[n].just_fired THEN RateScale ELSE 0))
                                        \div 2]],
                         seq, t + 1))

\* the loop over output_ids that keeps top1, top2 and win; both tops start
\* at -1e9, below every rate
RECURSIVE TopTwo(_, _, _)
TopTwo(nr, ids, acc) ==
    IF ids = <<>> THEN acc
    ELSE LET r == getRate(nr, Head(ids))
         IN TopTwo(nr, Tail(ids),
                   IF r > acc.top1
                   THEN [top1 |-> r, top2 |-> acc.top1, win |-> Head(ids),
                         seen |-> acc.seen + 1]
                   ELSE IF r > acc.top2
                   THEN [acc EXCEPT !.top2 = r, !.seen = @ + 1]
                   ELSE [acc EXCEPT !.seen = @ + 1])

\* RateGDTrainer::evaluate: neuron_rate.clear(), the loop, the metrics; the
\* margin is top1 - top2 when both were set
evaluateRateGD(g, c, seq) ==
    Bind(RateLoop(c, [g |-> g, nr |-> <<>>], seq, 1), LAMBDA st :
    Bind(TopTwo(st.nr, collectOutputIDs,
                [top1 |-> -RateScale, top2 |-> -RateScale, win |-> NoId,
                 seen |-> 0]), LAMBDA top :
        [g |-> st.g, nr |-> st.nr,
         m |-> [winner_id |-> top.win,
                margin |-> IF top.seen >= 2 THEN top.top1 - top.top2 ELSE 0,
                rates |-> [id \in Range(collectOutputIDs) |->
                                getRate(st.nr, id)]]]))

\* the timelines evaluated: S0 driven on every tick, on the first tick
\* only, or never
EvalSeqs == {Drive, Pulse, <<>>}

\* a trained network at rest and either trainer on it
EvalInit ==
    /\ net \in TrainNets
    /\ net2 = DefaultNet /\ probe = NoProbe /\ synced = FALSE
    /\ prev = net /\ lastInj = ZeroInj /\ pendInj = ZeroInj
    /\ lastOp = "init" /\ steps = 0
    /\ cfg = TrainConfig
    /\ ckpt_l0 = <<>> /\ ckpt_l1 = <<>> /\ ckpt_l2 = <<>>
    /\ captures = 0 /\ reverts = 0 /\ lastRet = FALSE
    /\ captured = NoSnapshot /\ stamps = NoStamps
    /\ EdgeIdle
    /\ rates = <<>> /\ call = NoCall
    /\ TrainIdle /\ EvoIdle

EvalFrame ==
    UNCHANGED <<lastInj, pendInj, steps, pairVars, ckptVars, edgeVars, rates,
                reward_baseline, prune_counter, epoch_acc_hist,
                epoch_margin_hist, batches, run, streak, evoVars>>

\* the trainer's evaluate(seq, cfg); call keeps the timeline and metrics of
\* this episode and of the one before it
Evaluate(trainer, seq) ==
    /\ \E r \in {IF trainer = "Trainer" THEN evaluate(net, cfg, seq)
                 ELSE evaluateRateGD(net, cfg, seq)} :
        /\ net' = r.g
        /\ neuron_rate' = IF trainer = "Trainer" THEN neuron_rate ELSE r.nr
        /\ call' = [op |-> "evaluate", trainer |-> trainer, seq |-> seq,
                    m |-> r.m,
                    last |-> IF call.op = "evaluate"
                             THEN [op |-> "evaluate", trainer |-> call.trainer,
                                   seq |-> call.seq, m |-> call.m]
                             ELSE NoCall]
    /\ prev' = net
    /\ lastOp' = "evaluate"
    /\ EvalFrame

EvalNext ==
    \E trainer \in {"Trainer", "RateGDTrainer"}, seq \in EvalSeqs :
        Evaluate(trainer, seq)

SpecEval == EvalInit /\ [][EvalNext]_vars

\* weights, thresholds, leaks and edges of two networks are the same
SameParameters(g, h) ==
    /\ DOMAIN g = DOMAIN h
    /\ \A n \in DOMAIN g :
        /\ g[n].connections = h[n].connections
        /\ g[n].threshold = h[n].threshold
        /\ g[n].balancer = h[n].balancer

\* C30: when a trainer evaluates the same timeline twice in succession on
\* a network whose weights, thresholds, leaks and edges have not changed,
\* the second episode's metrics (winner, margin, rates of the outputs) are
\* those of the first.
C30_EvaluateRepeats ==
    ( /\ call.op = "evaluate" /\ call.last.op = "evaluate"
      /\ call.last.trainer = call.trainer /\ call.last.seq = call.seq
      /\ SameParameters(net, prev) )
        => call.m = call.last.m

====
